---- MODULE Spec2Model ----
(***************************************************************************)
(* RevFinder AI: the tiered product-classification engine.                 *)
(*                                                                         *)
(*   NCMDatabase (src/src/core/ncm_database.py): code registry, keyword    *)
(*     matcher, learned cache with file-backed persistence;                *)
(*   analyze_item (src/src/main.py): the per-item pipeline                 *)
(*     registry -> keywords -> cache -> external model;                    *)
(*   FiscalAuditorAgent (src/src/agents/auditor.py): the external model    *)
(*     and the parsing of its reply.                                       *)
(*                                                                         *)
(* Python strings are TLA+ strings; the string methods the code uses       *)
(* (upper, strip, replace, in, startswith, slicing) are computed           *)
(* character by character.  Python dicts are sequences of records in       *)
(* insertion order.                                                        *)
(***************************************************************************)
EXTENDS Integers, Sequences, FiniteSets, TLC

VARIABLES
    json_file,      \* the JSON artifact on disk at json_path
    data,           \* self.data
    ncm_lista,      \* self.ncm_lista
    keywords,       \* self.keywords
    cache_ia,       \* self.cache_ia
    instancia2,     \* a second NCMDatabase over the same json_path, or None
    sessions,       \* the script runs of the web sessions: where each stands in analyze_item
    ia_auditor,     \* TRUE iff initialize_ai_agent() returned an agent
    ia_calls,       \* descriptions handed to FiscalAuditorAgent.analyze_item in this run
    erros_encontrados,  \* the findings process_pipeline has collected in this run
    n_ops,          \* operations performed so far (bounded)
    last            \* the last operation: its inputs and what it returned

vars == <<json_file, data, ncm_lista, keywords, cache_ia, instancia2, sessions,
          ia_auditor, ia_calls, erros_encontrados, n_ops, last>>

(***************************************************************************)
(* Bounds of the model.                                                    *)
(***************************************************************************)
MaxItems == 3       \* operations (items classified, restarts) in one behaviour of Spec
MaxOps == 3         \* cache operations in one behaviour of SpecCache
MaxPieces == 3      \* pieces concatenated into a description in SpecMatch

\* Python's None; every optional value of the model is a record
None == [none |-> TRUE]

(***************************************************************************)
(* Python string methods.                                                  *)
(***************************************************************************)
\* The letter A with acute accent and its lower case are written with two
\* ASCII stand-ins, so that the module stays ASCII.
A_ACUTE == "^"
a_acute == "~"

LowerCase == "abcdefghijklmnopqrstuvwxyz" \o a_acute
UpperCase == "ABCDEFGHIJKLMNOPQRSTUVWXYZ" \o A_ACUTE

CharAt(s, i) == SubSeq(s, i, i)

\* str.upper() on the characters of the model
UpperOf == [c \in {CharAt(LowerCase, i) : i \in 1..Len(LowerCase)} |->
              CharAt(UpperCase, CHOOSE i \in 1..Len(LowerCase) : CharAt(LowerCase, i) = c)]

UpperChar(c) == IF c \in DOMAIN UpperOf THEN UpperOf[c] ELSE c

RECURSIVE Upper(_)
Upper(s) ==
    IF Len(s) = 0 THEN ""
    ELSE UpperChar(CharAt(s, 1)) \o Upper(SubSeq(s, 2, Len(s)))

IsSpace(c) == c \in {" ", "\t", "\n"}

RECURSIVE LStrip(_)
LStrip(s) ==
    IF Len(s) > 0 /\ IsSpace(CharAt(s, 1)) THEN LStrip(SubSeq(s, 2, Len(s))) ELSE s

RECURSIVE RStrip(_)
RStrip(s) ==
    IF Len(s) > 0 /\ IsSpace(CharAt(s, Len(s))) THEN RStrip(SubSeq(s, 1, Len(s) - 1)) ELSE s

Strip(s) == RStrip(LStrip(s))

\* s.replace(c, "") for a one-character c
RECURSIVE RemoveChar(_, _)
RemoveChar(s, c) ==
    IF Len(s) = 0 THEN ""
    ELSE (IF CharAt(s, 1) = c THEN "" ELSE CharAt(s, 1)) \o RemoveChar(SubSeq(s, 2, Len(s)), c)

\* sub in s
Contains(sub, s) ==
    \E i \in 0..(Len(s) - Len(sub)) : SubSeq(s, i + 1, i + Len(sub)) = sub

\* s.startswith(p)
StartsWith(s, p) == Len(p) <= Len(s) /\ SubSeq(s, 1, Len(p)) = p

\* s[:n]
Prefix(s, n) == SubSeq(s, 1, IF Len(s) < n THEN Len(s) ELSE n)

\* x in lst, for a list
InList(x, lst) == \E i \in 1..Len(lst) : lst[i] = x

(***************************************************************************)
(* Code registry: is_monofasico.                                           *)
(***************************************************************************)
PrefixLen == 4

NcmLimpo(ncm) == Strip(RemoveChar(RemoveChar(ncm, "."), " "))

\* (faulty variant: the whole code is used as the prefix)
PrefixMatchWholeCode(lista, ncm_limpo) ==
    \E i \in 1..Len(lista) : StartsWith(lista[i], ncm_limpo)

PrefixMatch(lista, ncm_limpo) ==
    LET prefixo == Prefix(ncm_limpo, PrefixLen)
    IN \E i \in 1..Len(lista) : StartsWith(lista[i], prefixo)

IsMonofasico(lista, ncm) ==
    LET ncm_limpo == NcmLimpo(ncm)
    IN IF InList(ncm_limpo, lista) THEN TRUE
       ELSE PrefixMatch(lista, ncm_limpo)

(***************************************************************************)
(* Keyword matcher: identificar_por_nome, _calcular_confianca.             *)
(***************************************************************************)
\* categoria_ncm: category -> suggested code; "" stands for .get(categoria, "")
CategoriaNcm(categoria) ==
    CASE categoria = "cerveja" -> "22030000"
      [] categoria = "refrigerante" -> "22021000"
      [] categoria = "agua" -> "22011000"
      [] categoria = "energetico" -> "22029900"
      [] categoria = "isotonico" -> "22029900"
      [] categoria = "cha_pronto" -> "22029900"
      [] categoria = "suco_pronto" -> "22029900"
      [] categoria = "cerveja_sem_alcool" -> "22029100"
      [] OTHER -> ""

keywords_palavra_completa == <<"CHA", "CH" \o A_ACUTE, "ALE", "ZERO">>

keywords_alta == <<"HEINEKEN", "BRAHMA", "SKOL", "ANTARCTICA", "BUDWEISER",
                   "COCA-COLA", "COCA", "PEPSI", "FANTA", "SPRITE",
                   "RED BULL", "MONSTER", "GATORADE", "POWERADE">>

keywords_media == <<"CERVEJA", "REFRIGERANTE", "AGUA", A_ACUTE \o "GUA", "SUCO",
                    "ENERGETICO", "ISOTONICO", "CH" \o A_ACUTE>>

\* (faulty variant: the keyword is compared as written in the table)
CalcularConfiancaSemUpper(keyword) ==
    IF InList(keyword, keywords_alta) THEN "alta"
    ELSE IF InList(keyword, keywords_media) THEN "media"
    ELSE "baixa"

\* (faulty variant: a keyword outside the brand list gets the lowest tier)
CalcularConfiancaSemMedia(keyword) ==
    IF InList(Upper(keyword), keywords_alta) THEN "alta" ELSE "baixa"

CalcularConfianca(keyword) ==
    LET keyword_upper == Upper(keyword)
    IN IF InList(keyword_upper, keywords_alta) THEN "alta"
       ELSE IF InList(keyword_upper, keywords_media) THEN "media"
       ELSE "baixa"

\* (faulty variant: every keyword is searched as a substring)
KeywordHitSubstring(keyword, nome_upper) == Contains(Upper(keyword), nome_upper)

\* The test of one keyword against the upper-cased name (lines 605-627).
KeywordHit(keyword, nome_upper) ==
    LET keyword_upper == Upper(keyword)
    IN IF InList(keyword_upper, keywords_palavra_completa)
       THEN Contains(" " \o keyword_upper \o " ", " " \o nome_upper \o " ")
       ELSE Contains(keyword_upper, nome_upper)

\* (faulty variant: a hit in a category without a mapped code ends the scan)
RECURSIVE ScanKeywordsSemSalto(_, _, _, _)
ScanKeywordsSemSalto(kws, nome_upper, c, k) ==
    IF c > Len(kws) THEN None
    ELSE IF StartsWith(kws[c].categoria, "_") THEN ScanKeywordsSemSalto(kws, nome_upper, c + 1, 1)
    ELSE IF k > Len(kws[c].lista) THEN ScanKeywordsSemSalto(kws, nome_upper, c + 1, 1)
    ELSE LET keyword == kws[c].lista[k]
             ncm_sugerido == CategoriaNcm(kws[c].categoria)
         IN IF KeywordHit(keyword, nome_upper)
            THEN (IF ncm_sugerido # ""
                  THEN [categoria |-> kws[c].categoria,
                        ncm_sugerido |-> ncm_sugerido,
                        confianca |-> CalcularConfianca(keyword),
                        keyword_encontrada |-> keyword]
                  ELSE None)
            ELSE ScanKeywordsSemSalto(kws, nome_upper, c, k + 1)

\* (faulty variant: a hit of a category without mapped code is returned,
\* with the empty code)
RECURSIVE ScanKeywordsSemCodigo(_, _, _, _)
ScanKeywordsSemCodigo(kws, nome_upper, c, k) ==
    IF c > Len(kws) THEN None
    ELSE IF StartsWith(kws[c].categoria, "_")
    THEN ScanKeywordsSemCodigo(kws, nome_upper, c + 1, 1)
    ELSE IF k > Len(kws[c].lista) THEN ScanKeywordsSemCodigo(kws, nome_upper, c + 1, 1)
    ELSE LET keyword == kws[c].lista[k]
         IN IF KeywordHit(keyword, nome_upper)
            THEN [categoria |-> kws[c].categoria,
                  ncm_sugerido |-> CategoriaNcm(kws[c].categoria),
                  confianca |-> CalcularConfianca(keyword),
                  keyword_encontrada |-> keyword]
            ELSE ScanKeywordsSemCodigo(kws, nome_upper, c, k + 1)

\* The keyword table is a sequence of [categoria, lista] in the order of the
\* JSON object.  The scan position (c, k) is category c, keyword k.
RECURSIVE ScanKeywords(_, _, _, _)
ScanKeywords(kws, nome_upper, c, k) ==
    IF c > Len(kws) THEN None
    ELSE IF StartsWith(kws[c].categoria, "_") THEN ScanKeywords(kws, nome_upper, c + 1, 1)
    ELSE IF k > Len(kws[c].lista) THEN ScanKeywords(kws, nome_upper, c + 1, 1)
    ELSE LET keyword == kws[c].lista[k]
             ncm_sugerido == CategoriaNcm(kws[c].categoria)
         IN IF KeywordHit(keyword, nome_upper) /\ ncm_sugerido # ""
            THEN [categoria |-> kws[c].categoria,
                  ncm_sugerido |-> ncm_sugerido,
                  confianca |-> CalcularConfianca(keyword),
                  keyword_encontrada |-> keyword]
            ELSE ScanKeywords(kws, nome_upper, c, k + 1)

IdentificarPorNome(kws, nome_produto) == ScanKeywords(kws, Upper(nome_produto), 1, 1)

(***************************************************************************)
(* Learned cache: buscar_cache_ia, salvar_aprendizado_ia,                  *)
(* incrementar_economia.  A dict is a sequence of [chave, dados].          *)
(***************************************************************************)
HasKey(dict, chave) == \E i \in 1..Len(dict) : dict[i].chave = chave

GetKey(dict, chave) == dict[CHOOSE i \in 1..Len(dict) : dict[i].chave = chave].dados

\* (faulty variant: an existing key keeps its value)
DictSetKeepFirst(dict, chave, dados) ==
    IF HasKey(dict, chave) THEN dict
    ELSE Append(dict, [chave |-> chave, dados |-> dados])

\* dict[chave] = dados: an existing key keeps its place, a new key goes last
DictSet(dict, chave, dados) ==
    IF HasKey(dict, chave)
    THEN [i \in 1..Len(dict) |->
            IF dict[i].chave = chave THEN [chave |-> chave, dados |-> dados] ELSE dict[i]]
    ELSE Append(dict, [chave |-> chave, dados |-> dados])

NomeNormalizado(nome_produto) == Strip(Upper(nome_produto))

\* (faulty variant: only a key contained in the description matches)
RECURSIVE BuscaFlexivelSoChave(_, _, _)
BuscaFlexivelSoChave(cache, nome_upper, i) ==
    IF i > Len(cache) THEN None
    ELSE IF Contains(Upper(cache[i].chave), nome_upper)
         THEN cache[i].dados
         ELSE BuscaFlexivelSoChave(cache, nome_upper, i + 1)

\* The flexible search of lines 325-333, from position i on.
RECURSIVE BuscaFlexivel(_, _, _)
BuscaFlexivel(cache, nome_upper, i) ==
    IF i > Len(cache) THEN None
    ELSE LET chave_upper == Upper(cache[i].chave)
         IN IF Contains(chave_upper, nome_upper) \/ Contains(nome_upper, chave_upper)
            THEN cache[i].dados
            ELSE BuscaFlexivel(cache, nome_upper, i + 1)

\* The exact search alone (lines 319-322)
BuscarCacheIaExactOnly(cache, nome_produto) ==
    IF HasKey(cache, NomeNormalizado(nome_produto))
    THEN GetKey(cache, NomeNormalizado(nome_produto))
    ELSE None

\* (faulty variant: the keys are scanned without the exact search first)
BuscarCacheIaSoFlexivel(cache, nome_produto) ==
    IF Len(cache) = 0 THEN None
    ELSE BuscaFlexivel(cache, NomeNormalizado(nome_produto), 1)

\* Returns the entry (the added "fonte" field is always "cache_ia") or None.
BuscarCacheIa(cache, nome_produto) ==
    IF Len(cache) = 0 THEN None
    ELSE LET nome_upper == NomeNormalizado(nome_produto)
         IN IF HasKey(cache, nome_upper) THEN GetKey(cache, nome_upper)
            ELSE BuscaFlexivel(cache, nome_upper, 1)

(***************************************************************************)
(* The JSON artifact and self.data.  A loaded document is a record         *)
(*   [ncm_simples, keywords_produtos, aprendizado]                         *)
(* where aprendizado is None (no "_aprendizado_ia" section) or             *)
(*   [total_economizado, produtos], or [total_economizado] alone when the  *)
(*   section of the file has no "produtos".                                *)
(***************************************************************************)
EmptyData == [ncm_simples |-> <<>>, keywords_produtos |-> <<>>, aprendizado |-> None]

\* The file on disk: absent, not parseable as JSON, or a document.
MissingFile == [kind |-> "missing"]
MalformedFile == [kind |-> "malformed"]
DocumentFile(d) == [kind |-> "document", doc |-> d]

\* _load_database: a missing file and a JSONDecodeError both give {}
LoadDatabase(f) == IF f.kind = "document" THEN f.doc ELSE EmptyData

\* The data has an "_aprendizado_ia" section without "produtos"
SemProdutos(d) == d.aprendizado # None /\ "produtos" \notin DOMAIN d.aprendizado

\* _process_database: the cache extracted from the loaded data;
\* aprendizado.get("produtos", {}) gives a new empty dict without the key
ProcessCache(d) ==
    IF d.aprendizado = None \/ SemProdutos(d) THEN <<>> ELSE d.aprendizado.produtos

\* What open(json_path, 'w') + json.dump leave on disk: the dump, the old
\* file (open raised), or a truncated file (the dump raised midway).
WriteOutcomes == {"ok", "open_failed", "dump_failed"}

WriteFile(f, d, outcome) ==
    CASE outcome = "ok" -> DocumentFile(d)
      [] outcome = "open_failed" -> f
      [] OTHER -> MalformedFile

NewAprendizado == [total_economizado |-> 0, produtos |-> <<>>]

\* (faulty variant: the suggested code is not kept)
DadosAprendizadoSemNcm(veredito, agora) ==
    [is_monofasico |-> veredito[1],
     ncm_sugerido |-> "",
     motivo |-> veredito[3],
     data_aprendizado |-> agora]

\* The entry salvar_aprendizado_ia builds (lines 388-393) from the verdict
\* <<is_monofasico, ncm_sugerido, motivo>>; the clock of the model stands
\* for datetime.now()
DadosAprendizado(veredito, agora) ==
    [is_monofasico |-> veredito[1],
     ncm_sugerido |-> veredito[2],
     motivo |-> veredito[3],
     data_aprendizado |-> agora]

\* (faulty variant: the section is created when absent, the entry is not
\* written into it)
SalvarDataSemEntrada(d, nome_normalizado, dados) ==
    [d EXCEPT !.aprendizado = IF d.aprendizado = None THEN NewAprendizado ELSE d.aprendizado]

\* (faulty variant: the section is written anew around the entries, its
\* counter back at 0)
SalvarDataContadorZerado(d, nome_normalizado, dados) ==
    LET apr == IF d.aprendizado = None THEN NewAprendizado ELSE d.aprendizado
    IN [d EXCEPT !.aprendizado =
            [NewAprendizado EXCEPT !.produtos = DictSet(apr.produtos, nome_normalizado, dados)]]

\* self.data after lines 399-407
SalvarData(d, nome_normalizado, dados) ==
    LET apr == IF d.aprendizado = None THEN NewAprendizado ELSE d.aprendizado
    IN [d EXCEPT !.aprendizado =
            [apr EXCEPT !.produtos = DictSet(apr.produtos, nome_normalizado, dados)]]

\* (faulty variants of salvar_aprendizado_ia: the memory cache is not updated; a
\* verdict that is not special is not stored)
SalvarAprendizadoIaSemMemoria(db, nome_produto, dados, outcome) ==
    LET nome_normalizado == NomeNormalizado(nome_produto)
        data2 == SalvarData(db.data, nome_normalizado, dados)
    IN [cache |-> db.cache, data |-> data2, file |-> WriteFile(db.file, data2, outcome)]

SalvarAprendizadoIaSoMonofasico(db, nome_produto, dados, outcome) ==
    LET nome_normalizado == NomeNormalizado(nome_produto)
        data2 == SalvarData(db.data, nome_normalizado, dados)
    IN IF dados.is_monofasico
       THEN [cache |-> DictSet(db.cache, nome_normalizado, dados),
             data |-> data2,
             file |-> WriteFile(db.file, data2, outcome)]
       ELSE db

\* (faulty variant: the memory cache is updated after the dump, so a failed
\* write leaves it without the entry)
SalvarAprendizadoIaMemoriaAposGravar(db, nome_produto, dados, outcome) ==
    LET nome_normalizado == NomeNormalizado(nome_produto)
        data2 == SalvarData(db.data, nome_normalizado, dados)
    IN [cache |-> IF outcome = "ok" THEN DictSet(db.cache, nome_normalizado, dados)
                  ELSE db.cache,
        data |-> data2,
        file |-> WriteFile(db.file, data2, outcome)]

\* salvar_aprendizado_ia: the database [cache, data, file] after the call.
\* The memory is updated before the file is opened, so a failed write
\* leaves cache and data updated.  With a section that has no "produtos",
\* line 407 raises KeyError after the cache was updated: the data and the
\* file stay as they are.
SalvarAprendizadoIa(db, nome_produto, dados, outcome) ==
    LET nome_normalizado == NomeNormalizado(nome_produto)
        data2 == SalvarData(db.data, nome_normalizado, dados)
    IN IF SemProdutos(db.data)
       THEN [cache |-> DictSet(db.cache, nome_normalizado, dados),
             data |-> db.data,
             file |-> db.file]
       ELSE [cache |-> DictSet(db.cache, nome_normalizado, dados),
             data |-> data2,
             file |-> WriteFile(db.file, data2, outcome)]

\* What salvar_aprendizado_ia returns: True when the dump was written,
\* False when anything raised
SalvarRetorno(db, outcome) == ~SemProdutos(db.data) /\ outcome = "ok"

\* (faulty variant: the section is written anew, without its entries)
IncrementarEconomiaSemProdutos(db, outcome) ==
    IF db.data.aprendizado = None THEN db
    ELSE LET data2 == [db.data EXCEPT !.aprendizado =
                          [NewAprendizado EXCEPT !.total_economizado =
                              db.data.aprendizado.total_economizado + 1]]
         IN [db EXCEPT !.data = data2, !.file = WriteFile(db.file, data2, outcome)]

\* incrementar_economia: nothing without an "_aprendizado_ia" section,
\* else the counter goes up by one and the file is rewritten
IncrementarEconomia(db, outcome) ==
    IF db.data.aprendizado = None THEN db
    ELSE LET data2 == [db.data EXCEPT !.aprendizado.total_economizado = @ + 1]
         IN [db EXCEPT !.data = data2, !.file = WriteFile(db.file, data2, outcome)]

(***************************************************************************)
(* verificar_item: registry, keywords, cache, in this order.  The result   *)
(* carries, besides the fields of the code's dict, the tiers the call      *)
(* evaluated, in the order it evaluated them.                              *)
(***************************************************************************)
ResultadoInicial(ncm_limpo) ==
    [is_monofasico |-> FALSE, ncm_correto |-> ncm_limpo, ncm_atual_correto |-> TRUE,
     fonte |-> "", descricao |-> "", confianca |-> "alta", keyword_encontrada |-> "",
     tiers |-> <<>>]

\* (faulty variant: a cached verdict that is not special is not reported as a hit)
EtapaCacheSoMonofasico(cache, ncm_limpo, nome_produto, resultado) ==
    LET hit == BuscarCacheIa(cache, nome_produto)
        r == [resultado EXCEPT !.tiers = Append(@, "cache")]
    IN IF hit # None /\ hit.is_monofasico
       THEN [r EXCEPT !.is_monofasico = hit.is_monofasico,
                      !.ncm_correto = hit.ncm_sugerido,
                      !.ncm_atual_correto = (ncm_limpo = hit.ncm_sugerido),
                      !.fonte = "cache_ia",
                      !.descricao = hit.motivo,
                      !.confianca = "alta"]
       ELSE r

\* (faulty variant: the verdict keeps the item's current code)
EtapaCacheCodigoAtual(cache, ncm_limpo, nome_produto, resultado) ==
    LET hit == BuscarCacheIa(cache, nome_produto)
        r == [resultado EXCEPT !.tiers = Append(@, "cache")]
    IN IF hit # None
       THEN [r EXCEPT !.is_monofasico = hit.is_monofasico,
                      !.ncm_correto = ncm_limpo,
                      !.ncm_atual_correto = (ncm_limpo = hit.ncm_sugerido),
                      !.fonte = "cache_ia",
                      !.descricao = hit.motivo,
                      !.confianca = "alta"]
       ELSE r

\* (faulty variant: the reason of the entry is not copied and the confidence
\* is that of a model verdict)
EtapaCacheSemMotivo(cache, ncm_limpo, nome_produto, resultado) ==
    LET hit == BuscarCacheIa(cache, nome_produto)
        r == [resultado EXCEPT !.tiers = Append(@, "cache")]
    IN IF hit # None
       THEN [r EXCEPT !.is_monofasico = hit.is_monofasico,
                      !.ncm_correto = hit.ncm_sugerido,
                      !.ncm_atual_correto = (ncm_limpo = hit.ncm_sugerido),
                      !.fonte = "cache_ia",
                      !.confianca = "media"]
       ELSE r

\* ETAPA 3 (lines 748-765), reached with the tiers evaluated so far
EtapaCache(cache, ncm_limpo, nome_produto, resultado) ==
    LET hit == BuscarCacheIa(cache, nome_produto)
        r == [resultado EXCEPT !.tiers = Append(@, "cache")]
    IN IF hit # None
       THEN [r EXCEPT !.is_monofasico = hit.is_monofasico,
                      !.ncm_correto = hit.ncm_sugerido,
                      !.ncm_atual_correto = (ncm_limpo = hit.ncm_sugerido),
                      !.fonte = "cache_ia",
                      !.descricao = hit.motivo,
                      !.confianca = "alta"]
       ELSE r

\* ETAPA 2 (lines 735-746)
EtapaKeywords(kws, cache, ncm_limpo, nome_produto, resultado) ==
    LET identificacao == IdentificarPorNome(kws, nome_produto)
        r == [resultado EXCEPT !.tiers = Append(@, "keywords")]
    IN IF identificacao # None
       THEN [r EXCEPT !.is_monofasico = TRUE,
                      !.ncm_correto = identificacao.ncm_sugerido,
                      !.ncm_atual_correto = FALSE,
                      !.fonte = "identificacao_nome",
                      !.confianca = identificacao.confianca,
                      !.keyword_encontrada = identificacao.keyword_encontrada]
       ELSE EtapaCache(cache, ncm_limpo, nome_produto, r)

\* (faulty variant: the keywords are tried before the registry)
VerificarItemKeywordsFirst(lista, kws, cache, ncm, nome_produto) ==
    LET ncm_limpo == NcmLimpo(ncm)
        identificacao == IdentificarPorNome(kws, nome_produto)
        r == [ResultadoInicial(ncm_limpo) EXCEPT !.tiers = <<"keywords">>]
    IN IF identificacao # None
       THEN [r EXCEPT !.is_monofasico = TRUE,
                      !.ncm_correto = identificacao.ncm_sugerido,
                      !.ncm_atual_correto = FALSE,
                      !.fonte = "identificacao_nome",
                      !.confianca = identificacao.confianca,
                      !.keyword_encontrada = identificacao.keyword_encontrada]
       ELSE IF IsMonofasico(lista, ncm_limpo)
       THEN [r EXCEPT !.tiers = Append(@, "registry"),
                      !.is_monofasico = TRUE,
                      !.ncm_correto = ncm_limpo,
                      !.fonte = "banco_dados"]
       ELSE EtapaCache(cache, ncm_limpo, nome_produto,
                       [r EXCEPT !.tiers = Append(@, "registry")])

\* (faulty variant: a registry hit does not end the evaluation)
VerificarItemNoShortCircuit(lista, kws, cache, ncm, nome_produto) ==
    LET ncm_limpo == NcmLimpo(ncm)
        r == [ResultadoInicial(ncm_limpo) EXCEPT !.tiers = <<"registry">>]
    IN EtapaKeywords(kws, cache, ncm_limpo, nome_produto, r)

\* ETAPA 1 (lines 716-733), then the rest
VerificarItem(lista, kws, cache, ncm, nome_produto) ==
    LET ncm_limpo == NcmLimpo(ncm)
        r == [ResultadoInicial(ncm_limpo) EXCEPT !.tiers = <<"registry">>]
    IN IF IsMonofasico(lista, ncm_limpo)
       THEN [r EXCEPT !.is_monofasico = TRUE,
                      !.ncm_correto = ncm_limpo,
                      !.fonte = "banco_dados"]
       ELSE EtapaKeywords(kws, cache, ncm_limpo, nome_produto, r)

(***************************************************************************)
(* FiscalAuditorAgent.analyze_item and _parse_response.  What the external *)
(* model does is an input: crew.kickoff raises, or returns a text that     *)
(*   holds a list of at least three elements ("list"),                     *)
(*   holds no such list ("invalid"), or                                    *)
(*   makes ast.literal_eval raise ("parse_error").                         *)
(* A verdict is <<is_monophasic, ncm, reason>>: resultado_ia[0..2].        *)
(***************************************************************************)
beer_keywords == <<"HEINEKEN", "BRAHMA", "SKOL", "ANTARCTICA", "CERV", "BEER">>
soda_keywords == <<"COCA", "PEPSI", "FANTA", "SPRITE", "GUARANA", "REFRI">>
water_keywords == <<"AGUA", "WATER", "MINERAL">>

AnyIn(kwlist, descricao_upper) ==
    \E i \in 1..Len(kwlist) : Contains(kwlist[i], descricao_upper)

ParseResponse(response, ncm_fallback, descricao) ==
    CASE response.kind = "list" -> response.lista
      [] response.kind = "parse_error" -> <<FALSE, ncm_fallback, "Erro no parse">>
      [] OTHER ->
            LET descricao_upper == Upper(descricao)
            IN IF AnyIn(beer_keywords, descricao_upper)
               THEN <<TRUE, "22030000", "Fallback: Beer identified by name">>
               ELSE IF AnyIn(soda_keywords, descricao_upper)
               THEN <<TRUE, "22021000", "Fallback: Soft drink identified by name">>
               ELSE IF AnyIn(water_keywords, descricao_upper)
               THEN <<TRUE, "22011000", "Fallback: Water identified by name">>
               ELSE <<FALSE, ncm_fallback, "IA respondeu em formato invalido">>

\* (faulty variant: a failed call is answered from the description)
AuditorAnalyzeItemAdivinha(response, descricao, ncm_errado) ==
    ParseResponse(IF response.kind = "raise" THEN [kind |-> "invalid"] ELSE response,
                  ncm_errado, descricao)

AuditorAnalyzeItem(response, descricao, ncm_errado) ==
    IF response.kind = "raise"
    THEN <<FALSE, ncm_errado, "Erro na API">>
    ELSE ParseResponse(response, ncm_errado, descricao)

(***************************************************************************)
(* analyze_item of main.py: one item through the whole pipeline.           *)
(***************************************************************************)
Erro(item, ncm_correto, origem, confianca) ==
    [produto |-> item.produto, ncm |-> item.ncm, ncm_correto |-> ncm_correto,
     imposto_recuperavel |-> item.imposto_total,
     origem_analise |-> origem, confianca |-> confianca]

Origem(fonte) ==
    CASE fonte = "banco_dados" -> "Banco de Dados"
      [] fonte = "cache_ia" -> "Cache IA (Aprendizado)"
      [] OTHER -> "Identificacao por Nome"

NoOp == [op |-> "none"]

\* (faulty variant: only a tax of exactly zero is skipped)
SemImpostoSoZero(item) == item.imposto_total = 0

\* if item['imposto_total'] <= 0: return None
SemImposto(item) == item.imposto_total <= 0

\* (faulty variant: an exception of the file write leaves salvar_aprendizado_ia)
SalvarPropagaFalha(outcome) == outcome # "ok"

\* salvar_aprendizado_ia catches every exception and returns False: nothing
\* it raises reaches analyze_item
SalvarPropaga(outcome) == FALSE

\* The database of the current state
Db == [cache |-> cache_ia, data |-> data, file |-> json_file]

\* (faulty variant: the call classifies the item and returns no finding)
AnalyzeItemEffectSemAchado(item, response, outcome) ==
    [db |-> Db, calls |-> ia_calls,
     last |-> [op |-> "analyze_item", item |-> item, verificado |-> ~SemImposto(item),
               resultado_db |-> VerificarItem(ncm_lista, keywords, cache_ia,
                                              item.ncm, item.produto),
               ia_chamada |-> FALSE, resposta |-> None, resultado_ia |-> <<>>,
               erro |-> None, raised |-> FALSE]]

\* The state after analyze_item(item) and what it returned.  `response` is
\* what the external model does if it is called, `outcome` what the file
\* write does if there is one.
AnalyzeItemEffect(item, response, outcome) ==
    LET base == [op |-> "analyze_item", item |-> item, verificado |-> FALSE,
                 resultado_db |-> ResultadoInicial(""), ia_chamada |-> FALSE,
                 resposta |-> None, resultado_ia |-> <<>>, erro |-> None,
                 raised |-> FALSE]
    IN
    IF SemImposto(item)
    THEN [db |-> Db, calls |-> ia_calls, last |-> base]
    ELSE
    LET resultado_db == VerificarItem(ncm_lista, keywords, cache_ia, item.ncm, item.produto)
        \* incrementar_economia, called by verificar_item on a cache hit
        db1 == IF resultado_db.fonte = "cache_ia" THEN IncrementarEconomia(Db, outcome) ELSE Db
        verificado == [base EXCEPT !.verificado = TRUE, !.resultado_db = resultado_db]
    IN
    IF resultado_db.is_monofasico
    THEN [db |-> db1, calls |-> ia_calls,
          last |-> [verificado EXCEPT !.erro = Erro(item, resultado_db.ncm_correto,
                                                    Origem(resultado_db.fonte),
                                                    resultado_db.confianca)]]
    ELSE IF resultado_db.fonte = "cache_ia"
    THEN [db |-> db1, calls |-> ia_calls, last |-> verificado]
    ELSE IF ia_auditor
    THEN LET resultado_ia == AuditorAnalyzeItem(response, item.produto, item.ncm)
             dados == DadosAprendizado(<<resultado_ia[1] = TRUE, resultado_ia[2],
                                         resultado_ia[3]>>, n_ops)
         IN [db |-> SalvarAprendizadoIa(db1, item.produto, dados, outcome),
             calls |-> Append(ia_calls, item.produto),
             last |-> [verificado EXCEPT
                        !.ia_chamada = TRUE,
                        !.resposta = response,
                        !.resultado_ia = resultado_ia,
                        !.raised = SalvarPropaga(outcome),
                        !.erro = IF resultado_ia[1] = TRUE /\ ~SalvarPropaga(outcome)
                                 THEN Erro(item, resultado_ia[2], "Agente IA", "media")
                                 ELSE None]]
    ELSE [db |-> db1, calls |-> ia_calls, last |-> verificado]

(***************************************************************************)
(* Inputs of the model.                                                    *)
(***************************************************************************)
Keywords1 ==
    <<[categoria |-> "_comentario", lista |-> <<"CHANDON">>],
      [categoria |-> "cerveja", lista |-> <<"cerveja", "HEINEKEN", "ALE">>],
      [categoria |-> "vinho", lista |-> <<"VINHO">>],
      [categoria |-> "cha_pronto", lista |-> <<"CHA">>],
      [categoria |-> "refrigerante", lista |-> <<"COCA", "ZERO">>]>>

Rules1 == [ncm_simples |-> <<"22030000", "22021000">>,
           keywords_produtos |-> Keywords1,
           aprendizado |-> None]

Rules1Learned ==
    [Rules1 EXCEPT !.aprendizado =
        [total_economizado |-> 0,
         produtos |-> <<[chave |-> "CASAL GARCIA",
                         dados |-> [is_monofasico |-> FALSE, ncm_sugerido |-> "22042100",
                                    motivo |-> "Wine", data_aprendizado |-> 0]]>>]]

InitialFiles == {MissingFile, DocumentFile(Rules1), DocumentFile(Rules1Learned)}

\* Items of an invoice, as the parser hands them over
\* (imposto_total in centavos).
Items ==
    {[ncm |-> "99999999", produto |-> "ARROZ", imposto_total |-> 899],
     [ncm |-> "22042100", produto |-> " arroz ", imposto_total |-> 899],
     [ncm |-> "99999999", produto |-> "HEINEKEN 355ML", imposto_total |-> 899],
     [ncm |-> "2203.99.99", produto |-> "ARROZ", imposto_total |-> 899],
     [ncm |-> "99999999", produto |-> "ARROZ", imposto_total |-> 0],
     [ncm |-> "22030000", produto |-> "HEINEKEN 355ML", imposto_total |-> -100],
     [ncm |-> "99999999", produto |-> "VH CASAL GARCIA", imposto_total |-> 899]}

\* What the external model does when it is called
Responses ==
    {[kind |-> "raise"],
     [kind |-> "list", lista |-> <<TRUE, "22030000", "Beer identified">>],
     [kind |-> "list", lista |-> <<FALSE, "99999999", "Not a monophasic product">>]}

(***************************************************************************)
(* The pipeline: a process loads the database, classifies items one at a   *)
(* time, and may be restarted against the same file.                       *)
(***************************************************************************)
\* NCMDatabase.__init__: _load_database, then _process_database
Loaded(f) ==
    LET d == LoadDatabase(f)
    IN [data |-> d, ncm_lista |-> d.ncm_simples, keywords |-> d.keywords_produtos,
        cache_ia |-> ProcessCache(d)]

Init ==
    /\ json_file \in InitialFiles
    /\ \E l \in {Loaded(json_file)} :
         /\ data = l.data
         /\ ncm_lista = l.ncm_lista
         /\ keywords = l.keywords
         /\ cache_ia = l.cache_ia
    /\ ia_auditor \in BOOLEAN
    /\ ia_calls = <<>>
    /\ erros_encontrados = <<>>
    /\ instancia2 = None
    /\ sessions = <<>>
    /\ n_ops = 0
    /\ last = NoOp

\* The inputs analyze_item(item) reads in the current state: the model's
\* response only if the model is called, the outcome of the file write only
\* if a file is written.
ResponsesOf(item) ==
    LET r == VerificarItem(ncm_lista, keywords, cache_ia, item.ncm, item.produto)
    IN IF ~SemImposto(item) /\ ~r.is_monofasico /\ r.fonte # "cache_ia" /\ ia_auditor
       THEN Responses ELSE {[kind |-> "raise"]}

OutcomesOf(item) ==
    LET r == VerificarItem(ncm_lista, keywords, cache_ia, item.ncm, item.produto)
    IN IF ~SemImposto(item) /\ (r.fonte = "cache_ia" \/ (~r.is_monofasico /\ ia_auditor))
       THEN WriteOutcomes ELSE {"ok"}

\* One turn of the loop of process_pipeline: analyze_item(item), and the
\* finding it returns is appended to erros_encontrados
AnalyzeItem ==
    /\ n_ops < MaxItems
    /\ \E item \in Items :
         \E response \in ResponsesOf(item), outcome \in OutcomesOf(item) :
           \E e \in {AnalyzeItemEffect(item, response, outcome)} :
              /\ cache_ia' = e.db.cache
              /\ data' = e.db.data
              /\ json_file' = e.db.file
              /\ ia_calls' = e.calls
              /\ erros_encontrados' = IF e.last.erro # None
                                      THEN Append(erros_encontrados, e.last.erro)
                                      ELSE erros_encontrados
              /\ last' = e.last
    /\ n_ops' = n_ops + 1
    /\ UNCHANGED <<ncm_lista, keywords, instancia2, sessions, ia_auditor>>

\* process_pipeline run again: a new NCMDatabase over the same file and a
\* new initialize_ai_agent()
Restart ==
    /\ n_ops < MaxItems
    /\ last # NoOp
    /\ \E l \in {Loaded(json_file)} :
         /\ data' = l.data
         /\ ncm_lista' = l.ncm_lista
         /\ keywords' = l.keywords
         /\ cache_ia' = l.cache_ia
    /\ ia_auditor' \in BOOLEAN
    /\ ia_calls' = <<>>
    /\ erros_encontrados' = <<>>
    /\ last' = NoOp
    /\ n_ops' = n_ops + 1
    /\ UNCHANGED <<json_file, instancia2, sessions>>

Next == AnalyzeItem \/ Restart

Spec == Init /\ [][Next]_vars

(***************************************************************************)
(* verificar_item called directly (as the tests do), on every code and     *)
(* description of a bounded set.                                           *)
(***************************************************************************)
\* A second rule file: brands listed before the generic terms, soft drinks
\* before beers
Keywords2 ==
    <<[categoria |-> "refrigerante", lista |-> <<"Coca", "zero">>],
      [categoria |-> "importados", lista |-> <<"HEINEKEN", "N">>],
      [categoria |-> "cerveja", lista |-> <<"HEINEKEN", "CERVEJA">>],
      [categoria |-> "cha_pronto", lista |-> <<"cha">>]>>

Rules2Learned ==
    [ncm_simples |-> <<"22021000", "22030000", "22011000">>,
     keywords_produtos |-> Keywords2,
     aprendizado |->
        [total_economizado |-> 2,
         produtos |-> <<[chave |-> "N",
                         dados |-> [is_monofasico |-> TRUE, ncm_sugerido |-> "22030000",
                                    motivo |-> "Beer identified", data_aprendizado |-> 0]]>>]]

MatchFiles == {DocumentFile(Rules1), DocumentFile(Rules1Learned), DocumentFile(Rules2Learned)}

MatchNcms == {"22030000", "2203.99.99", "99999999", "22042100", ""}

Pieces == {" ", "N", "CHA", "HEINEKEN", "cerveja", "Coca", "zero"}

\* The strings made of at most n pieces
RECURSIVE Descricoes(_)
Descricoes(n) ==
    IF n = 0 THEN {""}
    ELSE LET shorter == Descricoes(n - 1)
         IN shorter \cup {d \o p : d \in shorter, p \in Pieces}

InitMatch ==
    /\ json_file \in MatchFiles
    /\ \E l \in {Loaded(json_file)} :
         /\ data = l.data
         /\ ncm_lista = l.ncm_lista
         /\ keywords = l.keywords
         /\ cache_ia = l.cache_ia
    /\ ia_auditor = FALSE
    /\ ia_calls = <<>>
    /\ erros_encontrados = <<>>
    /\ instancia2 = None
    /\ sessions = <<>>
    /\ n_ops = 0
    /\ last \in [op : {"query"}, ncm : MatchNcms, nome_produto : Descricoes(MaxPieces)]

\* db.verificar_item(ncm, nome_produto), with the incrementar_economia it
\* calls on a cache hit
VerificarItemCall ==
    /\ last.op = "query"
    /\ \E r \in {VerificarItem(ncm_lista, keywords, cache_ia, last.ncm, last.nome_produto)} :
         /\ last' = [op |-> "verificar_item", ncm |-> last.ncm,
                     nome_produto |-> last.nome_produto, resultado |-> r]
         /\ \E outcome \in (IF r.fonte = "cache_ia" THEN WriteOutcomes ELSE {"ok"}) :
              \E db \in {IF r.fonte = "cache_ia" THEN IncrementarEconomia(Db, outcome) ELSE Db} :
                 /\ data' = db.data
                 /\ json_file' = db.file
    /\ n_ops' = n_ops + 1
    /\ UNCHANGED <<ncm_lista, keywords, cache_ia,
                 ia_auditor, ia_calls, erros_encontrados, instancia2, sessions>>

NextMatch == VerificarItemCall

SpecMatch == InitMatch /\ [][NextMatch]_vars

(***************************************************************************)
(* The learned cache called directly: salvar_aprendizado_ia,               *)
(* buscar_cache_ia, incrementar_economia, and a reload of the file.        *)
(***************************************************************************)
CacheNomes == {"ARROZ", " arroz ", "ARROZ TIPO 1", ""}

\* A rule file whose learned section holds the counter and no "produtos"
Rules1SemProdutos == [Rules1 EXCEPT !.aprendizado = [total_economizado |-> 3]]

CacheFiles == InitialFiles \cup {DocumentFile(Rules1SemProdutos)}

Vereditos == {<<TRUE, "22030000", "Beer identified">>,
              <<FALSE, "99999999", "Not a monophasic product">>}

Salvar ==
    /\ n_ops < MaxOps
    /\ \E nome_produto \in CacheNomes, v \in Vereditos, outcome \in WriteOutcomes :
         \E dados \in {DadosAprendizado(v, n_ops)} :
           \E db \in {SalvarAprendizadoIa(Db, nome_produto, dados, outcome)} :
              /\ cache_ia' = db.cache
              /\ data' = db.data
              /\ json_file' = db.file
              /\ last' = [op |-> "salvar", nome_produto |-> nome_produto, dados |-> dados,
                          anterior |-> BuscarCacheIaExactOnly(cache_ia, nome_produto),
                          gravou |-> SalvarRetorno(Db, outcome)]
    /\ n_ops' = n_ops + 1
    /\ UNCHANGED <<ncm_lista, keywords, ia_auditor, ia_calls, erros_encontrados, instancia2, sessions>>

Buscar ==
    /\ n_ops < MaxOps
    /\ \E nome_produto \in CacheNomes :
         last' = [op |-> "buscar", nome_produto |-> nome_produto,
                  dados |-> BuscarCacheIa(cache_ia, nome_produto)]
    /\ n_ops' = n_ops + 1
    /\ UNCHANGED <<json_file, data, ncm_lista, keywords, cache_ia,
                 ia_auditor, ia_calls, erros_encontrados, instancia2, sessions>>

Incrementar ==
    /\ n_ops < MaxOps
    /\ \E outcome \in (IF data.aprendizado = None THEN {"ok"} ELSE WriteOutcomes) :
         \E db \in {IncrementarEconomia(Db, outcome)} :
            /\ data' = db.data
            /\ json_file' = db.file
    /\ last' = [op |-> "incrementar"]
    /\ n_ops' = n_ops + 1
    /\ UNCHANGED <<ncm_lista, keywords, cache_ia,
                 ia_auditor, ia_calls, erros_encontrados, instancia2, sessions>>

\* A new NCMDatabase over the same file
Recarregar ==
    /\ n_ops < MaxOps
    /\ last.op # "recarregar"
    /\ \E l \in {Loaded(json_file)} :
         /\ data' = l.data
         /\ ncm_lista' = l.ncm_lista
         /\ keywords' = l.keywords
         /\ cache_ia' = l.cache_ia
    /\ last' = [op |-> "recarregar"]
    /\ n_ops' = n_ops + 1
    /\ UNCHANGED <<json_file, ia_auditor, ia_calls, erros_encontrados, instancia2, sessions>>

InitCache ==
    /\ json_file \in CacheFiles
    /\ \E l \in {Loaded(json_file)} :
         /\ data = l.data
         /\ ncm_lista = l.ncm_lista
         /\ keywords = l.keywords
         /\ cache_ia = l.cache_ia
    /\ ia_auditor = FALSE
    /\ ia_calls = <<>>
    /\ erros_encontrados = <<>>
    /\ instancia2 = None
    /\ sessions = <<>>
    /\ n_ops = 0
    /\ last = NoOp

NextCache == Salvar \/ Buscar \/ Incrementar \/ Recarregar

SpecCache == InitCache /\ [][NextCache]_vars

(***************************************************************************)
(* NCMDatabase(json_path) on every kind of file, then verificar_item.      *)
(***************************************************************************)
\* Two more files: one whose bytes are not UTF-8, one that is valid JSON but
\* not an object (a non-empty array)
NotUtf8File == [kind |-> "not_utf8"]
NotObjectFile == [kind |-> "not_object"]

\* __init__ raises: reading the file raises UnicodeDecodeError, which
\* `except json.JSONDecodeError` does not catch, or _process_database calls
\* .get on a value that is not a dict
InitRaises(f) == f.kind \in {"not_utf8", "not_object"}

\* A rule file whose code list lacks the codes its keyword categories map to
RulesWaterOnly ==
    [ncm_simples |-> <<"22011000">>, keywords_produtos |-> Keywords2, aprendizado |-> None]

LoadFiles == MatchFiles \cup {DocumentFile(RulesWaterOnly),
                              MissingFile, MalformedFile, NotUtf8File, NotObjectFile}

LoadNomes == Descricoes(1)

\* Before the constructor runs; the fields hold what lines 170-176 assign
InitLoad ==
    /\ json_file \in LoadFiles
    /\ data = EmptyData
    /\ ncm_lista = <<>>
    /\ keywords = <<>>
    /\ cache_ia = <<>>
    /\ ia_auditor = FALSE
    /\ ia_calls = <<>>
    /\ erros_encontrados = <<>>
    /\ instancia2 = None
    /\ sessions = <<>>
    /\ n_ops = 0
    /\ last = [op |-> "new"]

\* NCMDatabase(json_path)
Construir ==
    /\ last.op = "new"
    /\ IF InitRaises(json_file)
       THEN /\ last' = [op |-> "init", raised |-> TRUE]
            /\ UNCHANGED <<data, ncm_lista, keywords, cache_ia>>
       ELSE /\ \E l \in {Loaded(json_file)} :
                 /\ data' = l.data
                 /\ ncm_lista' = l.ncm_lista
                 /\ keywords' = l.keywords
                 /\ cache_ia' = l.cache_ia
            /\ last' = [op |-> "init", raised |-> FALSE]
    /\ n_ops' = n_ops + 1
    /\ UNCHANGED <<json_file, ia_auditor, ia_calls, erros_encontrados, instancia2, sessions>>

\* db.verificar_item(ncm, nome_produto) on the constructed database
Classificar ==
    /\ last.op = "init" /\ ~last.raised
    /\ \E ncm \in MatchNcms, nome_produto \in LoadNomes :
         \E r \in {VerificarItem(ncm_lista, keywords, cache_ia, ncm, nome_produto)} :
           /\ last' = [op |-> "verificar_item", ncm |-> ncm, nome_produto |-> nome_produto,
                       resultado |-> r, raised |-> FALSE]
           /\ \E outcome \in (IF r.fonte = "cache_ia" THEN WriteOutcomes ELSE {"ok"}) :
                \E db \in {IF r.fonte = "cache_ia" THEN IncrementarEconomia(Db, outcome) ELSE Db} :
                   /\ data' = db.data
                   /\ json_file' = db.file
    /\ n_ops' = n_ops + 1
    /\ UNCHANGED <<ncm_lista, keywords, cache_ia,
                 ia_auditor, ia_calls, erros_encontrados, instancia2, sessions>>

NextLoad == Construir \/ Classificar

SpecLoad == InitLoad /\ [][NextLoad]_vars

(***************************************************************************)
(* FiscalAuditorAgent._parse_response on every kind of response text.      *)
(***************************************************************************)
\* The text holds a list of three elements; holds no bracketed list of
\* three elements or more; holds brackets whose content ast.literal_eval
\* rejects (as in [true, "22030000", "Beer"])
ParseResponses ==
    {[kind |-> "list", lista |-> <<TRUE, "22030000", "Beer identified">>],
     [kind |-> "list", lista |-> <<FALSE, "99999999", "Not a monophasic product">>],
     [kind |-> "invalid"],
     [kind |-> "parse_error"]}

ParseNomes == Descricoes(1) \cup {"ARROZ", "AGUA MINERAL", "agua com coca"}

ParseNcms == {"99999999", "2203.99.99"}

InitParse ==
    /\ json_file = MissingFile
    /\ data = EmptyData
    /\ ncm_lista = <<>>
    /\ keywords = <<>>
    /\ cache_ia = <<>>
    /\ ia_auditor = TRUE
    /\ ia_calls = <<>>
    /\ erros_encontrados = <<>>
    /\ instancia2 = None
    /\ sessions = <<>>
    /\ n_ops = 0
    /\ last \in [op : {"resposta"}, response : ParseResponses,
                 descricao : ParseNomes, ncm_fallback : ParseNcms]

\* self._parse_response(resultado_bruto, ncm_errado, descricao)
ParseResponseCall ==
    /\ last.op = "resposta"
    /\ last' = [op |-> "parse_response", response |-> last.response,
                descricao |-> last.descricao, ncm_fallback |-> last.ncm_fallback,
                resultado |-> ParseResponse(last.response, last.ncm_fallback, last.descricao)]
    /\ n_ops' = n_ops + 1
    /\ UNCHANGED <<json_file, data, ncm_lista, keywords, cache_ia,
                 ia_auditor, ia_calls, erros_encontrados, instancia2, sessions>>

NextParse == ParseResponseCall

SpecParse == InitParse /\ [][NextParse]_vars

(***************************************************************************)
(* Two NCMDatabase objects over one file: the web application keeps one    *)
(* for its lifetime (load_database of app.py), each run of                 *)
(* process_pipeline constructs another over the same ncm_rules.json.       *)
(* Their stores never overlap: one action is one whole                     *)
(* salvar_aprendizado_ia call.                                             *)
(***************************************************************************)
MaxStores == 2      \* operations in one behaviour of SpecShared

SharedNomes == {"ARROZ", "ARROZ TIPO 1"}

\* Instance i as a database [cache, data, file]; both share the file
Instancia(i) ==
    IF i = 1 THEN Db
    ELSE [cache |-> instancia2.cache_ia, data |-> instancia2.data, file |-> json_file]

InitShared ==
    /\ json_file \in InitialFiles
    /\ \E l \in {Loaded(json_file)} :
         /\ data = l.data
         /\ ncm_lista = l.ncm_lista
         /\ keywords = l.keywords
         /\ cache_ia = l.cache_ia
         /\ instancia2 = l
         /\ sessions = <<>>
    /\ ia_auditor = FALSE
    /\ ia_calls = <<>>
    /\ erros_encontrados = <<>>
    /\ n_ops = 0
    /\ last = NoOp

\* salvar_aprendizado_ia on one of the two instances
SalvarEm ==
    /\ n_ops < MaxStores
    /\ \E i \in {1, 2}, nome_produto \in SharedNomes, v \in Vereditos, outcome \in WriteOutcomes :
         \E db \in {SalvarAprendizadoIa(Instancia(i), nome_produto,
                                        DadosAprendizado(v, n_ops), outcome)} :
            /\ json_file' = db.file
            /\ IF i = 1
               THEN /\ cache_ia' = db.cache
                    /\ data' = db.data
                    /\ UNCHANGED instancia2
               ELSE /\ instancia2' = [instancia2 EXCEPT !.cache_ia = db.cache, !.data = db.data]
                    /\ UNCHANGED <<cache_ia, data>>
            /\ last' = [op |-> "salvar", instancia |-> i, nome_produto |-> nome_produto,
                        gravou |-> SalvarRetorno(Instancia(i), outcome)]
    /\ n_ops' = n_ops + 1
    /\ UNCHANGED <<ncm_lista, keywords, ia_auditor, ia_calls, erros_encontrados, sessions>>

\* The second instance is replaced by a new NCMDatabase over the file (the
\* next run of process_pipeline)
Reabrir ==
    /\ n_ops < MaxStores
    /\ last.op = "salvar"
    /\ instancia2' = Loaded(json_file)
    /\ last' = [op |-> "reabrir"]
    /\ n_ops' = n_ops + 1
    /\ UNCHANGED <<json_file, data, ncm_lista, keywords, cache_ia, ia_auditor, ia_calls,
                   erros_encontrados, sessions>>

NextShared == SalvarEm \/ Reabrir

SpecShared == InitShared /\ [][NextShared]_vars

(***************************************************************************)
(* Claims about the pipeline (Spec).                                       *)
(***************************************************************************)
\* The step is one analyze_item call that reached verificar_item
AnalyzeStep == n_ops' = n_ops + 1 /\ last'.op = "analyze_item" /\ last'.verificado

\* The tiers one call evaluated: those of verificar_item, then the model
TiersOf(l) == IF l.ia_chamada THEN Append(l.resultado_db.tiers, "model") ELSE l.resultado_db.tiers

\* C1: in one run the external model is invoked at most once per distinct
\* normalized (upper-cased, trimmed) description.
C1_ModelOncePerDescription ==
    \A i, j \in 1..Len(ia_calls) :
        i # j => NomeNormalizado(ia_calls[i]) # NomeNormalizado(ia_calls[j])

\* Two descriptions went to the model, and a third item, whose description
\* is another spelling of the first one's, was answered without the model.
C1_Witness ==
    /\ Len(ia_calls) = 2
    /\ last.op = "analyze_item" /\ last.verificado /\ ~last.ia_chamada
    /\ last.resultado_db.fonte = "cache_ia"
    /\ last.item.produto # ia_calls[1]
    /\ NomeNormalizado(last.item.produto) = NomeNormalizado(ia_calls[1])

\* C2: the tiers are evaluated in the order registry, keywords, cache,
\* model, and the first tier that answers is the last one evaluated.
C2_TierOrder ==
    [][AnalyzeStep =>
        LET item == last'.item
            reg == IsMonofasico(ncm_lista, item.ncm)
            kw == IdentificarPorNome(keywords, item.produto) # None
            ch == BuscarCacheIa(cache_ia, item.produto) # None
            expected == IF reg THEN <<"registry">>
                        ELSE IF kw THEN <<"registry", "keywords">>
                        ELSE IF ch \/ ~ia_auditor THEN <<"registry", "keywords", "cache">>
                        ELSE <<"registry", "keywords", "cache", "model">>
            fonte == IF reg THEN "banco_dados"
                     ELSE IF kw THEN "identificacao_nome"
                     ELSE IF ch THEN "cache_ia" ELSE ""
        IN /\ TiersOf(last') = expected
           /\ last'.resultado_db.fonte = fonte
    ]_vars

\* The registry answered an item whose description the cache also holds.
C2_Witness ==
    /\ last.op = "analyze_item" /\ last.verificado
    /\ TiersOf(last) = <<"registry">>
    /\ BuscarCacheIa(cache_ia, last.item.produto) # None
    /\ ia_auditor

\* C3: when registry and keywords miss and the cache lookup hits, the
\* verdict has source cache and the model is not invoked, also when the
\* cached verdict says not special.
C3_CacheHitNoModel ==
    [][(/\ AnalyzeStep
        /\ ~IsMonofasico(ncm_lista, last'.item.ncm)
        /\ IdentificarPorNome(keywords, last'.item.produto) = None
        /\ BuscarCacheIa(cache_ia, last'.item.produto) # None)
       => /\ last'.resultado_db.fonte = "cache_ia"
          /\ ~last'.ia_chamada
          /\ ia_calls' = ia_calls
          /\ last'.erro # None => last'.erro.origem_analise = "Cache IA (Aprendizado)"
    ]_vars

\* A cached verdict that says not special answered an item while the model
\* was available.
C3_Witness ==
    /\ last.op = "analyze_item" /\ last.verificado
    /\ last.resultado_db.fonte = "cache_ia"
    /\ ~last.resultado_db.is_monofasico
    /\ last.erro = None
    /\ ia_auditor

\* C4: every verdict the model returns is in the learned cache, under the
\* item's normalized description, when the item's result is returned,
\* special or not; a special one is reported with source model and
\* confidence medium.
C4_ModelVerdictStored ==
    (last.op = "analyze_item" /\ last.ia_chamada) =>
        LET chave == NomeNormalizado(last.item.produto)
            r == last.resultado_ia
        IN /\ HasKey(cache_ia, chave)
           /\ GetKey(cache_ia, chave).is_monofasico = (r[1] = TRUE)
           /\ GetKey(cache_ia, chave).ncm_sugerido = r[2]
           /\ GetKey(cache_ia, chave).motivo = r[3]
           /\ BuscarCacheIa(cache_ia, last.item.produto) = GetKey(cache_ia, chave)
           /\ (r[1] = TRUE) =>
                /\ last.erro # None
                /\ last.erro.origem_analise = "Agente IA"
                /\ last.erro.confianca = "media"
                /\ last.erro.ncm_correto = r[2]
           /\ (r[1] # TRUE) => last.erro = None

\* The model said not special, and the verdict is in the cache.
C4_Witness ==
    /\ last.op = "analyze_item" /\ last.ia_chamada
    /\ last.resultado_ia[1] = FALSE
    /\ last.item.produto # NomeNormalizado(last.item.produto)
    /\ HasKey(cache_ia, NomeNormalizado(last.item.produto))
    /\ ~GetKey(cache_ia, NomeNormalizado(last.item.produto)).is_monofasico

\* The first of two consecutive classifications of the same item queried
\* the model.
C5_TwoCalls ==
    /\ AnalyzeStep
    /\ last.op = "analyze_item" /\ last.ia_chamada
    /\ last'.item = last.item

\* C5 as stated: the two classifications yield identical verdicts (special
\* flag, correct code, source, confidence) and the second one does not
\* invoke the model.
C5_Original ==
    [][C5_TwoCalls => (last'.erro = last.erro /\ ia_calls' = ia_calls)]_vars

\* C5 as amended: the two classifications agree on the special flag and on
\* the correct code, and the second one does not invoke the model; a
\* special verdict comes from the model with confidence medium the first
\* time and from the cache with confidence high the second time.
C5_Idempotence ==
    [][C5_TwoCalls =>
        /\ ia_calls' = ia_calls /\ ~last'.ia_chamada
        /\ (last'.erro = None) <=> (last.erro = None)
        /\ last'.resultado_db.is_monofasico = (last.resultado_ia[1] = TRUE)
        /\ last'.resultado_db.ncm_correto = last.resultado_ia[2]
        /\ last.erro # None =>
             /\ last'.erro.ncm_correto = last.erro.ncm_correto
             /\ last.erro.origem_analise = "Agente IA" /\ last.erro.confianca = "media"
             /\ last'.erro.origem_analise = "Cache IA (Aprendizado)"
             /\ last'.erro.confianca = "alta"
    ]_vars

\* An item the model judged special in this run is answered by the cache.
C5_Witness ==
    /\ last.op = "analyze_item" /\ last.verificado
    /\ last.resultado_db.fonte = "cache_ia"
    /\ last.erro # None
    /\ \E i \in 1..Len(ia_calls) : ia_calls[i] = last.item.produto

(***************************************************************************)
(* Claims about verificar_item on every code and description (SpecMatch).  *)
(***************************************************************************)
Verificado == last.op = "verificar_item"

Digits == "0123456789"

\* The digits of a code, in order
RECURSIVE DigitsOf(_)
DigitsOf(s) ==
    IF Len(s) = 0 THEN ""
    ELSE (IF Contains(CharAt(s, 1), Digits) THEN CharAt(s, 1) ELSE "")
         \o DigitsOf(SubSeq(s, 2, Len(s)))

\* The code has four digits or more and a registered code begins with its
\* first four
SharesHeading(lista, ncm) ==
    LET h == Prefix(DigitsOf(ncm), 4)
    IN Len(h) = 4 /\ \E i \in 1..Len(lista) : Prefix(lista[i], 4) = h

\* The words of a text: its maximal runs of characters other than the space
WordStarts(s) ==
    {i \in 1..Len(s) : CharAt(s, i) # " " /\ (i = 1 \/ CharAt(s, i - 1) = " ")}

WordEnds(s) ==
    {j \in 1..Len(s) : CharAt(s, j) # " " /\ (j = Len(s) \/ CharAt(s, j + 1) = " ")}

Words(s) ==
    {SubSeq(s, i, CHOOSE j \in WordEnds(s) :
                     j >= i /\ \A k \in WordEnds(s) : k >= i => j <= k) :
        i \in WordStarts(s)}

\* C6: a registered code is answered by the registry, special, with the
\* code itself as the correct code, whatever the description, the keyword
\* table and the cache.
C6_RegisteredCode ==
    (Verificado /\ InList(last.ncm, ncm_lista)) =>
        /\ last.resultado.is_monofasico
        /\ last.resultado.ncm_correto = last.ncm
        /\ last.resultado.ncm_atual_correto
        /\ last.resultado.fonte = "banco_dados"

\* A registered code with a description that the keyword table and the
\* cache both know.
C6_Witness ==
    /\ Verificado /\ InList(last.ncm, ncm_lista)
    /\ IdentificarPorNome(keywords, last.nome_produto) # None
    /\ BuscarCacheIa(cache_ia, last.nome_produto) # None
    /\ last.resultado.fonte = "banco_dados"

\* C7: a code that is not registered but shares its first 4 digits with a
\* registered code is special through the registry tier, for every
\* description.
C7_PrefixMatch ==
    (Verificado /\ ~InList(NcmLimpo(last.ncm), ncm_lista) /\ SharesHeading(ncm_lista, last.ncm)) =>
        /\ last.resultado.is_monofasico
        /\ last.resultado.fonte = "banco_dados"

\* Such a code with a description no other tier knows.
C7_Witness ==
    /\ Verificado
    /\ ~InList(NcmLimpo(last.ncm), ncm_lista) /\ SharesHeading(ncm_lista, last.ncm)
    /\ IdentificarPorNome(keywords, last.nome_produto) = None
    /\ BuscarCacheIa(cache_ia, last.nome_produto) = None
    /\ last.resultado.is_monofasico

\* The fragment at place <<c, k>> of the keyword table
Fragment(kws, pos) == kws[pos[1]].lista[pos[2]]

Places(kws) == UNION {{<<c, k>> : k \in 1..Len(kws[c].lista)} : c \in 1..Len(kws)}

IsBrand(keyword) == InList(Upper(keyword), keywords_alta)

\* The fragment occurs in the description (given in upper case with its
\* words): as a word if it is one of the whole-word fragments, anywhere
\* otherwise
Occurs(keyword, nome_upper, words) ==
    IF InList(Upper(keyword), keywords_palavra_completa)
    THEN Upper(keyword) \in words
    ELSE Contains(Upper(keyword), nome_upper)

\* The places of the fragments that can answer: they occur in the
\* description and their category has a mapped code
Answering(kws, nome_produto) ==
    LET nome_upper == Upper(nome_produto)
        words == Words(nome_upper)
    IN {pos \in Places(kws) :
          /\ ~StartsWith(kws[pos[1]].categoria, "_")
          /\ CategoriaNcm(kws[pos[1]].categoria) # ""
          /\ Occurs(Fragment(kws, pos), nome_upper, words)}

Before(p, q) == p[1] < q[1] \/ (p[1] = q[1] /\ p[2] < q[2])

IsFirst(pos, set) == pos \in set /\ \A q \in set : ~Before(q, pos)

\* C8 as stated: a description that contains a brand fragment of the table,
\* with a code that is not registered, is answered by the keywords, with
\* confidence high and the code of the fragment's category.
C8_Original ==
    Verificado =>
        \A pos \in Places(keywords) :
            (/\ ~InList(NcmLimpo(last.ncm), ncm_lista)
             /\ ~StartsWith(keywords[pos[1]].categoria, "_")
             /\ IsBrand(Fragment(keywords, pos))
             /\ Contains(Upper(Fragment(keywords, pos)), Upper(last.nome_produto)))
            => /\ last.resultado.fonte = "identificacao_nome"
               /\ last.resultado.confianca = "alta"
               /\ last.resultado.ncm_correto = CategoriaNcm(keywords[pos[1]].categoria)

\* C8 as amended: when the code misses the registry tier (it is neither
\* registered nor shares a 4-digit prefix with a registered code) and the
\* first fragment in table order that occurs in the description, among the
\* categories with a mapped code, is a brand fragment, the keywords answer
\* with confidence high and the code of that fragment's category.
C8_BrandFirstHit ==
    (Verificado /\ ~IsMonofasico(ncm_lista, last.ncm)) =>
        \A answering \in {Answering(keywords, last.nome_produto)} :
            \A pos \in answering :
                (IsFirst(pos, answering) /\ IsBrand(Fragment(keywords, pos)))
                => /\ last.resultado.is_monofasico
                   /\ last.resultado.fonte = "identificacao_nome"
                   /\ last.resultado.confianca = "alta"
                   /\ last.resultado.ncm_correto = CategoriaNcm(keywords[pos[1]].categoria)
                   /\ last.resultado.keyword_encontrada = Fragment(keywords, pos)

\* A brand fragment written in mixed case in the table answered, in a
\* description that holds more than the fragment.
C8_Witness ==
    /\ Verificado
    /\ ~IsMonofasico(ncm_lista, last.ncm)
    /\ last.resultado.fonte = "identificacao_nome"
    /\ last.resultado.confianca = "alta"
    /\ last.resultado.keyword_encontrada # Upper(last.resultado.keyword_encontrada)
    /\ Len(last.nome_produto) > Len(last.resultado.keyword_encontrada)

\* C9: a whole-word fragment (CHA, CHA with acute accent, ALE, ZERO, in any
\* case) matches a description if and only if it is one of the words of the
\* description, the words being what the spaces separate; the matcher never
\* answers with such a fragment when it is only part of a longer word.
C9_WholeWord ==
    Verificado =>
        \A nome_upper \in {Upper(last.nome_produto)} :
          \A words \in {Words(nome_upper)} :
            /\ \A i \in 1..Len(keywords_palavra_completa) :
                  KeywordHit(keywords_palavra_completa[i], nome_upper)
                  <=> keywords_palavra_completa[i] \in words
            /\ \A pos \in Places(keywords) :
                  InList(Upper(Fragment(keywords, pos)), keywords_palavra_completa) =>
                     /\ KeywordHit(Fragment(keywords, pos), nome_upper)
                        <=> Upper(Fragment(keywords, pos)) \in words
                     /\ (/\ last.resultado.fonte = "identificacao_nome"
                         /\ last.resultado.keyword_encontrada = Fragment(keywords, pos))
                        => Upper(Fragment(keywords, pos)) \in words
                     /\ (/\ ~IsMonofasico(ncm_lista, last.ncm)
                         /\ ~StartsWith(keywords[pos[1]].categoria, "_")
                         /\ CategoriaNcm(keywords[pos[1]].categoria) # ""
                         /\ Upper(Fragment(keywords, pos)) \in words)
                        => last.resultado.fonte = "identificacao_nome"

\* CHA is in the description only as part of a longer word, the table
\* holds CHA, and the keywords did not answer.
C9_Witness ==
    /\ Verificado
    /\ Contains("CHA", Upper(last.nome_produto))
    /\ "CHA" \notin Words(Upper(last.nome_produto))
    /\ \E pos \in Places(keywords) : Upper(Fragment(keywords, pos)) = "CHA"
    /\ ~IsMonofasico(ncm_lista, last.ncm)
    /\ last.resultado.fonte # "identificacao_nome"

(***************************************************************************)
(* Claims about the learned cache (SpecCache).                             *)
(***************************************************************************)
\* The step is one salvar_aprendizado_ia call
SalvarStep == n_ops' = n_ops + 1 /\ last'.op = "salvar"

\* C10: a store under a key the cache already holds replaces the entry: a
\* lookup of any description with that key returns the fields of the
\* second verdict only, and the cache has as many entries as before.
C10_UpsertOverwrites ==
    [][(SalvarStep /\ HasKey(cache_ia, NomeNormalizado(last'.nome_produto))) =>
        /\ Len(cache_ia') = Len(cache_ia)
        /\ Cardinality({i \in 1..Len(cache_ia') :
                          cache_ia'[i].chave = NomeNormalizado(last'.nome_produto)}) = 1
        /\ \A d \in CacheNomes :
              NomeNormalizado(d) = NomeNormalizado(last'.nome_produto)
              => BuscarCacheIa(cache_ia', d) = last'.dados
    ]_vars

\* A verdict was stored over a different one, under another spelling of
\* the description.
C10_Witness ==
    /\ last.op = "salvar"
    /\ last.anterior # None
    /\ last.anterior.is_monofasico # last.dados.is_monofasico
    /\ last.nome_produto # NomeNormalizado(last.nome_produto)
    /\ BuscarCacheIa(cache_ia, last.nome_produto) = last.dados

(***************************************************************************)
(* Claims about persistence.                                               *)
(***************************************************************************)
\* The step is a new NCMDatabase over the file (SpecCache)
RecarregarStep == n_ops' = n_ops + 1 /\ last'.op = "recarregar"

\* C11 as stated: a description that was stored (it is a key of the cache,
\* or this step stores it) is found by every later lookup, in the same run
\* and after a reload from the file.
C11_NeverForgotten ==
    [][\A d \in CacheNomes :
          (\/ HasKey(cache_ia, NomeNormalizado(d))
           \/ (SalvarStep /\ last'.nome_produto = d))
          => BuscarCacheIa(cache_ia', d) # None
    ]_vars

\* The saved-call counter of self.data (0 without the section)
TotalEconomizado(d) == IF d.aprendizado = None THEN 0 ELSE d.aprendizado.total_economizado

\* The step is a restart of the pipeline (Spec)
RestartStep == n_ops' = n_ops + 1 /\ last' = NoOp

\* C12 as stated: a classification answered by the cache tier adds exactly
\* one to the saved-call counter, and a restart reads back the value the
\* counter had.
C12_CounterDurable ==
    [][/\ (AnalyzeStep /\ last'.resultado_db.fonte = "cache_ia")
          => TotalEconomizado(data') = TotalEconomizado(data) + 1
       /\ RestartStep => TotalEconomizado(data') = TotalEconomizado(data)
    ]_vars

(***************************************************************************)
(* Claims about the items the pipeline skips and the failures it absorbs.  *)
(***************************************************************************)
\* The step is one analyze_item call, whatever it did
AnalyzeCall == n_ops' = n_ops + 1 /\ last'.op = "analyze_item"

\* C13: an item whose tax paid is zero or negative never reaches the tiers:
\* verificar_item and the model are not called, the cache, the data with the
\* saved-call counter and the file are unchanged, and there is no finding.
C13_NoTaxNoEvaluation ==
    [][(AnalyzeCall /\ last'.item.imposto_total <= 0)
       => /\ ~last'.verificado
          /\ ~last'.ia_chamada
          /\ last'.erro = None
          /\ UNCHANGED <<cache_ia, data, json_file, ia_calls, erros_encontrados>>
    ]_vars

\* An item with a registered code, a brand in its description and a
\* negative tax was skipped while the model was available.
C13_Witness ==
    /\ last.op = "analyze_item"
    /\ last.item.imposto_total < 0
    /\ IsMonofasico(ncm_lista, last.item.ncm)
    /\ ia_auditor
    /\ last.erro = None

\* The item of the step misses the registry, the keywords and the cache
MissesAll(item) ==
    /\ ~IsMonofasico(ncm_lista, item.ncm)
    /\ IdentificarPorNome(keywords, item.produto) = None
    /\ BuscarCacheIa(cache_ia, item.produto) = None

\* C14: when the model is not configured, or its call raises, for an item
\* that missed registry, keywords and cache, the item's result is not
\* special with its current code, no finding is returned for it, and the
\* call returns normally, so the batch goes on.
C14_ModelUnavailable ==
    [][(/\ AnalyzeStep
        /\ MissesAll(last'.item)
        /\ (~ia_auditor \/ (last'.ia_chamada /\ last'.resposta.kind = "raise")))
       => /\ last'.erro = None
          /\ ~last'.raised
          /\ ~last'.resultado_db.is_monofasico
          /\ last'.resultado_db.ncm_correto = NcmLimpo(last'.item.ncm)
          /\ last'.ia_chamada => /\ last'.resultado_ia[1] = FALSE
                                 /\ last'.resultado_ia[2] = last'.item.ncm
          /\ ~ia_auditor => ~last'.ia_chamada
    ]_vars

\* The call of the model raised for an earlier item of the run, and a later
\* item of the same run was classified and gave a finding.
C14_Witness ==
    /\ \E i \in 1..Len(cache_ia) : cache_ia[i].dados.motivo = "Erro na API"
    /\ Len(ia_calls) = 1
    /\ last.op = "analyze_item" /\ last.verificado /\ ~last.ia_chamada
    /\ last.erro # None

\* All that is known about the description is a failed call of the model
FailedAttemptOnly(nome_produto) ==
    /\ BuscarCacheIa(cache_ia, nome_produto) # None
    /\ BuscarCacheIa(cache_ia, nome_produto).motivo = "Erro na API"

\* C15 as stated: a failed call of the model does not change how a later
\* item is classified: a later item with the same description, missed by
\* registry and keywords, is submitted to the model when the model is
\* available.
C15_FailureForThatItemOnly ==
    [][(/\ AnalyzeStep
        /\ ia_auditor
        /\ ~IsMonofasico(ncm_lista, last'.item.ncm)
        /\ IdentificarPorNome(keywords, last'.item.produto) = None
        /\ FailedAttemptOnly(last'.item.produto))
       => last'.ia_chamada
    ]_vars

\* The learned entry of a description as the file holds it (None when the
\* file is no document or has no such entry)
EntryOnDisk(nome_produto) ==
    IF json_file.kind = "document" /\ json_file.doc.aprendizado # None
    THEN BuscarCacheIaExactOnly(ProcessCache(json_file.doc), nome_produto)
    ELSE None

\* C16: when the file write of salvar_aprendizado_ia fails, nothing
\* propagates: analyze_item returns normally, and what it returns (special
\* flag, correct code, finding) is what it returns when the write succeeds.
C16_WriteFailureAbsorbed ==
    [][(AnalyzeStep /\ last'.ia_chamada)
       => /\ ~last'.raised
          /\ \A outcome \in WriteOutcomes :
                AnalyzeItemEffect(last'.item, last'.resposta, outcome).last = last'
          /\ BuscarCacheIaExactOnly(cache_ia', last'.item.produto) # None
    ]_vars

\* The model judged an item special, the write of the verdict failed (the
\* file does not hold the entry the cache holds), and the finding was
\* returned.
C16_Witness ==
    /\ last.op = "analyze_item" /\ last.ia_chamada
    /\ last.resultado_ia[1] = TRUE
    /\ last.erro # None /\ last.erro.ncm_correto = last.resultado_ia[2]
    /\ BuscarCacheIaExactOnly(cache_ia, last.item.produto) # None
    /\ EntryOnDisk(last.item.produto) = None

(***************************************************************************)
(* Claims about loading the rule file (SpecLoad).                          *)
(***************************************************************************)
\* The file the database was constructed from is missing or malformed
\* (no classification of SpecLoad rewrites such a file: the cache is empty)
BadSource == json_file.kind # "document"

\* C17 as stated: loading from a missing or malformed rule source never
\* raises and yields an empty code list, no keywords and an empty cache;
\* every later verificar_item misses the registry and the keywords.
C17_BadSourceEmptyRegistry ==
    /\ (last.op = "init" /\ BadSource)
       => /\ ~last.raised
          /\ ncm_lista = <<>> /\ keywords = <<>> /\ cache_ia = <<>>
    /\ (last.op = "verificar_item" /\ BadSource)
       => /\ last.resultado.fonte # "banco_dados"
          /\ last.resultado.fonte # "identificacao_nome"
          /\ ~last.resultado.is_monofasico

\* C19 as stated: nothing the core does raises out to its caller, whatever
\* the rule file is: constructing the database and classifying an item
\* both end without an exception, and a classification ends with a
\* well-formed verdict.
C19_NothingPropagates ==
    /\ last.op \in {"init", "verificar_item"} => ~last.raised
    /\ last.op = "verificar_item"
       => /\ last.resultado.is_monofasico \in BOOLEAN
          /\ last.resultado.fonte \in {"", "banco_dados", "identificacao_nome", "cache_ia"}
          /\ last.resultado.confianca \in {"alta", "media", "baixa"}

(***************************************************************************)
(* Claims about the model's response (SpecParse).                          *)
(***************************************************************************)
\* The fragment lists of _parse_response find something in the description
HeuristicFinds(descricao) ==
    \/ AnyIn(beer_keywords, Upper(descricao))
    \/ AnyIn(soda_keywords, Upper(descricao))
    \/ AnyIn(water_keywords, Upper(descricao))

\* C18 as stated: for a response that is not parsed as the three-field
\* verdict, the description's fragments decide first: what they find is
\* the verdict, and the not-special verdict with the current code is
\* returned only when they find nothing.
C18_HeuristicBeforeSafeVerdict ==
    (last.op = "parse_response" /\ last.response.kind # "list")
    => /\ HeuristicFinds(last.descricao)
          => /\ last.resultado[1] = TRUE
             /\ last.resultado[2] \in {"22030000", "22021000", "22011000"}
       /\ ~HeuristicFinds(last.descricao)
          => /\ last.resultado[1] = FALSE
             /\ last.resultado[2] = last.ncm_fallback

(***************************************************************************)
(* Claims about the findings (Spec).                                       *)
(***************************************************************************)
\* The tier that answered the item judged it special: verificar_item did,
\* or the model did
JudgedSpecial(l) ==
    /\ l.verificado
    /\ \/ l.resultado_db.is_monofasico
       \/ (l.ia_chamada /\ l.resultado_ia[1] = TRUE)

\* C20: each item with tax paid above zero that the answering tier judged
\* special adds exactly one finding, its own, to the output; every other
\* item leaves the output as it is.
C20_OneFindingPerSpecialItem ==
    [][AnalyzeCall =>
        IF last'.item.imposto_total > 0 /\ JudgedSpecial(last')
        THEN /\ Len(erros_encontrados') = Len(erros_encontrados) + 1
             /\ SubSeq(erros_encontrados', 1, Len(erros_encontrados)) = erros_encontrados
             /\ \E f \in {erros_encontrados'[Len(erros_encontrados')]} :
                   /\ f.produto = last'.item.produto
                   /\ f.ncm = last'.item.ncm
                   /\ f.imposto_recuperavel = last'.item.imposto_total
        ELSE erros_encontrados' = erros_encontrados
    ]_vars

\* Three items of one run: two findings from different tiers, and a last
\* item with tax paid that no tier judged special and that added none.
C20_Witness ==
    /\ n_ops = 3
    /\ Len(erros_encontrados) = 2
    /\ erros_encontrados[1].origem_analise # erros_encontrados[2].origem_analise
    /\ last.op = "analyze_item" /\ last.item.imposto_total > 0
    /\ ~JudgedSpecial(last)
    /\ last.verificado

(***************************************************************************)
(* Claims about the rule data and the learned cache in one file.           *)
(***************************************************************************)
\* C21 as stated: stores and counter increments leave the rule data of the
\* file alone: a reload after them gives the code list and the keyword
\* table the database had before (SpecCache; only a reload assigns them).
C21_RulesSurviveReload ==
    [][RecarregarStep => (ncm_lista' = ncm_lista /\ keywords' = keywords)]_vars

\* The keys of a dict
Chaves(dict) == {dict[i].chave : i \in 1..Len(dict)}

\* C22 as stated: when the stores of two instances over one file never
\* overlap, no upsert is lost: after a store that wrote the file, the file
\* holds an entry for every description either instance has in its cache
\* (SpecShared).
C22_NoUpsertLost ==
    (last.op = "salvar" /\ last.gravou) =>
        \A d \in Chaves(cache_ia) \cup Chaves(instancia2.cache_ia) : EntryOnDisk(d) # None

(***************************************************************************)
(* Claims about what a classification writes (SpecMatch).                  *)
(***************************************************************************)
\* The step is one verificar_item call
VerificarStep == n_ops' = n_ops + 1 /\ last'.op = "verificar_item"

C24_KeyedByDescription ==
    (Verificado /\ last.resultado.fonte = "cache_ia") =>
        \A ncm \in MatchNcms :
            \A r \in {VerificarItem(ncm_lista, keywords, cache_ia, ncm, last.nome_produto)} :
                r.tiers = <<"registry", "keywords", "cache">>
                => /\ r.fonte = "cache_ia"
                   /\ r.is_monofasico = last.resultado.is_monofasico
                   /\ r.ncm_correto = last.resultado.ncm_correto
                   /\ r.descricao = last.resultado.descricao

\* The cache answered an item, and another current code with the same
\* description reaches the cache tier too; the cached code is neither.
C24_Witness ==
    /\ Verificado /\ last.resultado.fonte = "cache_ia"
    /\ last.ncm = "22042100"
    /\ last.resultado.ncm_correto = "22030000"
    /\ Len(last.nome_produto) > 1
    /\ VerificarItem(ncm_lista, keywords, cache_ia, "99999999", last.nome_produto).fonte = "cache_ia"

(***************************************************************************)
(* NFeParser._safe_find_text and _safe_find_float (src/src/core/parser.py) *)
(* An XML element is the sequence of its children [tag, text]; the text of *)
(* an empty child is None, any other is Text(s).  A float is [neg, inteiro, fracao]: its sign,   *)
(* its integer part and the digits after the point without trailing zeros. *)
(***************************************************************************)
MaxChildren == 2    \* children of the element searched in SpecXml

Text(s) == [str |-> s]

\* (faulty variant: the first child, whatever its tag)
FindQualquer(element, path) ==
    IF Len(element) = 0 THEN None ELSE element[1]

\* element.find(path, ns): the first child with the tag, or None
Find(element, path) ==
    IF \E i \in 1..Len(element) : element[i].tag = path
    THEN element[CHOOSE i \in 1..Len(element) :
                    /\ element[i].tag = path
                    /\ \A j \in 1..(i - 1) : element[j].tag # path]
    ELSE None

\* `found is not None and found.text`: a text that is None or empty is false
HasText(found) == found # None /\ found.text # None /\ found.text.str # ""

SafeFindText(element, path, default) ==
    LET found == Find(element, path)
    IN IF HasText(found) THEN found.text.str ELSE default

IsDigits(s) == \A i \in 1..Len(s) : Contains(CharAt(s, i), Digits)

DigitVal(c) == CHOOSE d \in 0..9 : CharAt(Digits, d + 1) = c

RECURSIVE NatOf(_)
NatOf(s) ==
    IF Len(s) = 0 THEN 0
    ELSE NatOf(SubSeq(s, 1, Len(s) - 1)) * 10 + DigitVal(CharAt(s, Len(s)))

RECURSIVE DropZeros(_)
DropZeros(s) ==
    IF Len(s) > 0 /\ CharAt(s, Len(s)) = "0" THEN DropZeros(SubSeq(s, 1, Len(s) - 1)) ELSE s

\* float(text) on decimal notation: blanks around are stripped, then an
\* optional sign, digits, and an optional point with digits; anything else
\* is a ValueError ([ok |-> FALSE])
FloatOf(text) ==
    LET s == Strip(text)
        neg == Len(s) > 0 /\ CharAt(s, 1) = "-"
        body == IF Len(s) > 0 /\ CharAt(s, 1) \in {"-", "+"} THEN SubSeq(s, 2, Len(s)) ELSE s
        dots == {i \in 1..Len(body) : CharAt(body, i) = "."}
        dot == IF dots = {} THEN Len(body) + 1 ELSE CHOOSE i \in dots : \A j \in dots : i <= j
        inteiro == SubSeq(body, 1, dot - 1)
        fracao == SubSeq(body, dot + 1, Len(body))
    IN IF /\ Cardinality(dots) <= 1
          /\ IsDigits(inteiro) /\ IsDigits(fracao)
          /\ Len(inteiro) + Len(fracao) > 0
       THEN [ok |-> TRUE,
             valor |-> [neg |-> neg /\ (NatOf(inteiro) # 0 \/ DropZeros(fracao) # ""),
                        inteiro |-> NatOf(inteiro), fracao |-> DropZeros(fracao)]]
       ELSE [ok |-> FALSE]

\* The ValueError of float() is caught and gives the default
SafeFindFloat(element, path, default) ==
    LET found == Find(element, path)
    IN IF HasText(found)
       THEN (IF FloatOf(found.text.str).ok THEN FloatOf(found.text.str).valor ELSE default)
       ELSE default

XmlTags == {"nfe:xProd", "nfe:vProd"}

XmlPaths == XmlTags \cup {"inexistente"}

XmlTexts == {None} \cup {Text(s) : s \in {"", "CERVEJA", "15.99", " 7.50 ", "1,50"}}

XmlChildren == {[tag |-> t, text |-> x] : t \in XmlTags, x \in XmlTexts}

\* The elements with at most n children
RECURSIVE Elements(_)
Elements(n) ==
    IF n = 0 THEN {<<>>}
    ELSE LET smaller == Elements(n - 1)
         IN smaller \cup {Append(e, c) : e \in smaller, c \in XmlChildren}

Float9999 == [neg |-> FALSE, inteiro |-> 99, fracao |-> "99"]
Float0 == [neg |-> FALSE, inteiro |-> 0, fracao |-> ""]

InitXml ==
    /\ json_file = MissingFile
    /\ data = EmptyData
    /\ ncm_lista = <<>>
    /\ keywords = <<>>
    /\ cache_ia = <<>>
    /\ instancia2 = None
    /\ sessions = <<>>
    /\ ia_auditor = FALSE
    /\ ia_calls = <<>>
    /\ erros_encontrados = <<>>
    /\ n_ops = 0
    /\ last \in [op : {"element"}, element : Elements(MaxChildren), path : XmlPaths]

\* self._safe_find_text(element, path, default)
SafeFindTextCall ==
    /\ last.op = "element"
    /\ \E default \in {"", "DEFAULT"} :
         last' = [op |-> "safe_find_text", element |-> last.element, path |-> last.path,
                  default |-> default,
                  resultado |-> SafeFindText(last.element, last.path, default),
                  raised |-> FALSE]
    /\ n_ops' = n_ops + 1
    /\ UNCHANGED <<json_file, data, ncm_lista, keywords, cache_ia, instancia2, sessions, ia_auditor,
                   ia_calls, erros_encontrados>>

\* self._safe_find_float(element, path, default)
SafeFindFloatCall ==
    /\ last.op = "element"
    /\ \E default \in {Float0, Float9999} :
         last' = [op |-> "safe_find_float", element |-> last.element, path |-> last.path,
                  default |-> default,
                  resultado |-> SafeFindFloat(last.element, last.path, default),
                  raised |-> FALSE]
    /\ n_ops' = n_ops + 1
    /\ UNCHANGED <<json_file, data, ncm_lista, keywords, cache_ia, instancia2, sessions, ia_auditor,
                   ia_calls, erros_encontrados>>

NextXml == SafeFindTextCall \/ SafeFindFloatCall

SpecXml == InitXml /\ [][NextXml]_vars

\* The element has no child with the tag asked for
Absent(element, path) == \A i \in 1..Len(element) : element[i].tag # path

\* C25: when the element asked for is absent, _safe_find_text returns the
\* default text and _safe_find_float the default number of the caller, and
\* neither raises.
C25_SafeLookupDefault ==
    (last.op \in {"safe_find_text", "safe_find_float"} /\ Absent(last.element, last.path))
    => /\ last.resultado = last.default
       /\ ~last.raised

\* A number was asked for under a tag the element lacks, the element has
\* another child whose text is a number, and the default is not zero.
C25_Witness ==
    /\ last.op = "safe_find_float"
    /\ Absent(last.element, last.path)
    /\ Len(last.element) > 0 /\ last.element[1].text = Text("15.99")
    /\ last.default = Float9999
    /\ last.resultado = Float9999

(***************************************************************************)
(* Claims about the fields of a verdict.                                   *)
(***************************************************************************)
\* C26 as stated: in a verdict of the keywords, the current code counts as
\* correct exactly when it equals the matched code, also when the current
\* code, missed by the registry, is the code the category maps to
\* (SpecLoad).
C26_KeywordCurrentCodeCorrect ==
    (last.op = "verificar_item" /\ last.resultado.fonte = "identificacao_nome")
    => (last.resultado.ncm_atual_correto
        <=> (NcmLimpo(last.ncm) = last.resultado.ncm_correto))

\* C27: a verdict of the cache copies the entry the lookup returned: its
\* flag, its suggested code as the correct code, its reason as the
\* description; the current code is correct exactly when, normalized, it is
\* the suggested code; the confidence is high and the source is the cache.
C27_CacheVerdictVerbatim ==
    (Verificado /\ last.resultado.fonte = "cache_ia") =>
        \E entry \in {BuscarCacheIa(cache_ia, last.nome_produto)} :
            /\ entry # None
            /\ last.resultado.is_monofasico = entry.is_monofasico
            /\ last.resultado.ncm_correto = entry.ncm_sugerido
            /\ last.resultado.descricao = entry.motivo
            /\ last.resultado.ncm_atual_correto <=> (NcmLimpo(last.ncm) = entry.ncm_sugerido)
            /\ last.resultado.confianca = "alta"
            /\ last.resultado.keyword_encontrada = ""

\* The cache answered with an entry that says not special and suggests the
\* code the item has.
C27_Witness ==
    /\ Verificado /\ last.resultado.fonte = "cache_ia"
    /\ ~last.resultado.is_monofasico
    /\ last.resultado.ncm_atual_correto
    /\ last.resultado.ncm_correto = "22042100"
    /\ last.resultado.descricao = "Wine"

(***************************************************************************)
(* Claims about the lookup and the matcher.                                *)
(***************************************************************************)
\* The positions of the cache whose key contains the text or is contained
\* in it
Containing(cache, texto) ==
    {i \in 1..Len(cache) :
        Contains(cache[i].chave, texto) \/ Contains(texto, cache[i].chave)}

\* C28: a lookup returns an entry exactly when the normalized description
\* is a key, or a key contains it or is contained in it; the entry is that
\* of the exact key when there is one, and else that of the first key in
\* cache order with the containment (SpecCache).
C28_LookupExactThenFirstContaining ==
    last.op = "buscar" =>
        \A texto \in {NomeNormalizado(last.nome_produto)} :
          \A matches \in {Containing(cache_ia, texto)} :
            /\ (last.dados # None) <=> (HasKey(cache_ia, texto) \/ matches # {})
            /\ HasKey(cache_ia, texto) => last.dados = GetKey(cache_ia, texto)
            /\ (~HasKey(cache_ia, texto) /\ matches # {})
               => \E i \in matches :
                     /\ \A j \in matches : i <= j
                     /\ last.dados = cache_ia[i].dados

\* No key is the description, two keys with different entries contain it
\* or are contained in it, and the lookup returned the first one's entry.
C28_Witness ==
    /\ last.op = "buscar"
    /\ ~HasKey(cache_ia, NomeNormalizado(last.nome_produto))
    /\ \E i, j \in Containing(cache_ia, NomeNormalizado(last.nome_produto)) :
          /\ i < j
          /\ cache_ia[i].dados.is_monofasico # cache_ia[j].dados.is_monofasico
          /\ \A k \in Containing(cache_ia, NomeNormalizado(last.nome_produto)) : i <= k
          /\ last.dados = cache_ia[i].dados
    /\ NomeNormalizado(last.nome_produto) # ""

\* The places of the fragments that occur in the description, whatever
\* their category
Occurring(kws, nome_produto) ==
    LET nome_upper == Upper(nome_produto)
        words == Words(nome_upper)
    IN {pos \in Places(kws) : Occurs(Fragment(kws, pos), nome_upper, words)}

\* C29 as stated: the matcher returns the match of the first fragment, in
\* table order, that occurs in the description, and none when no fragment
\* of any category occurs.
C29_Original ==
    Verificado =>
        \A id \in {IdentificarPorNome(keywords, last.nome_produto)} :
          \A occurring \in {Occurring(keywords, last.nome_produto)} :
            /\ (id = None) <=> (occurring = {})
            /\ \A pos \in occurring :
                  IsFirst(pos, occurring)
                  => /\ id # None
                     /\ id.categoria = keywords[pos[1]].categoria
                     /\ id.keyword_encontrada = Fragment(keywords, pos)

\* C29 as amended: among the fragments of the categories that are not
\* comments (names beginning with "_") and have a mapped code, the matcher
\* returns the match of the first one, in table order, that occurs in the
\* description: its category, that category's code and the fragment; it
\* returns none when none of them occurs; verificar_item answers by the
\* keywords exactly when the code misses the registry and the matcher
\* returns a match.
C29_FirstHit ==
    Verificado =>
        \A id \in {IdentificarPorNome(keywords, last.nome_produto)} :
          \A answering \in {Answering(keywords, last.nome_produto)} :
            /\ (id = None) <=> (answering = {})
            /\ \A pos \in answering :
                  IsFirst(pos, answering)
                  => /\ id # None
                     /\ id.categoria = keywords[pos[1]].categoria
                     /\ id.ncm_sugerido = CategoriaNcm(keywords[pos[1]].categoria)
                     /\ id.keyword_encontrada = Fragment(keywords, pos)
            /\ (last.resultado.fonte = "identificacao_nome")
               <=> (~IsMonofasico(ncm_lista, last.ncm) /\ id # None)
            /\ last.resultado.fonte = "identificacao_nome"
               => /\ last.resultado.keyword_encontrada = id.keyword_encontrada
                  /\ last.resultado.ncm_correto = id.ncm_sugerido

\* The first fragment that occurs in the description belongs to a category
\* without a mapped code, and the keywords answered with a later fragment,
\* while a fragment of yet another category occurs too.
C29_Witness ==
    /\ Verificado
    /\ last.resultado.fonte = "identificacao_nome"
    /\ \E pos \in Occurring(keywords, last.nome_produto) :
          /\ IsFirst(pos, Occurring(keywords, last.nome_produto))
          /\ CategoriaNcm(keywords[pos[1]].categoria) = ""
    /\ Cardinality({keywords[pos[1]].categoria :
                       pos \in Answering(keywords, last.nome_produto)}) > 1

IsGeneric(keyword) == InList(Upper(keyword), keywords_media)

\* C30: the confidence of a keyword verdict is decided by the matched
\* fragment alone: high for a fragment of the brand list, medium for a
\* generic category name, low for any other, whatever else the description
\* holds.
C30_ConfidenceByFragment ==
    (Verificado /\ last.resultado.fonte = "identificacao_nome") =>
        \A keyword \in {last.resultado.keyword_encontrada} :
            /\ IsBrand(keyword) => last.resultado.confianca = "alta"
            /\ (~IsBrand(keyword) /\ IsGeneric(keyword)) => last.resultado.confianca = "media"
            /\ (~IsBrand(keyword) /\ ~IsGeneric(keyword)) => last.resultado.confianca = "baixa"

\* The matched fragment is neither a brand nor a generic name and the
\* verdict has confidence low, in a description that also holds a brand.
C30_Witness ==
    /\ Verificado /\ last.resultado.fonte = "identificacao_nome"
    /\ last.resultado.confianca = "baixa"
    /\ ~IsBrand(last.resultado.keyword_encontrada)
    /\ Contains("HEINEKEN", Upper(last.nome_produto))

(***************************************************************************)
(* Claims about the registry lookup (SpecMatch).                           *)
(***************************************************************************)
\* C31 as stated: a code is special by the registry exactly when,
\* normalized, it is registered or a registered code begins with its first
\* four digits; a code without a 4-digit heading in common with a
\* registered code, a blank or shorter one included, is not special.
C31_RegistryIffHeading ==
    Verificado =>
        /\ IsMonofasico(ncm_lista, last.ncm)
           <=> (InList(NcmLimpo(last.ncm), ncm_lista) \/ SharesHeading(ncm_lista, last.ncm))
        /\ (last.resultado.fonte = "banco_dados")
           <=> (InList(NcmLimpo(last.ncm), ncm_lista) \/ SharesHeading(ncm_lista, last.ncm))

(***************************************************************************)
(* Claims about stores, lookups and the counter (SpecCache).               *)
(***************************************************************************)
\* C32: right after a store of a verdict under a description, the lookup
\* of that description returns that verdict's flag, code and reason,
\* whatever other keys the cache holds.
C32_StoreLookupRoundTrip ==
    last.op = "salvar" =>
        \E hit \in {BuscarCacheIa(cache_ia, last.nome_produto)} :
            /\ hit # None
            /\ hit.is_monofasico = last.dados.is_monofasico
            /\ hit.ncm_sugerido = last.dados.ncm_sugerido
            /\ hit.motivo = last.dados.motivo

\* The stored description is found although an earlier key of the cache,
\* with a different verdict, contains it or is contained in it.
C32_Witness ==
    /\ last.op = "salvar"
    /\ BuscarCacheIa(cache_ia, last.nome_produto) = last.dados
    /\ \E i \in Containing(cache_ia, NomeNormalizado(last.nome_produto)) :
          /\ cache_ia[i].chave # NomeNormalizado(last.nome_produto)
          /\ cache_ia[i].dados.is_monofasico # last.dados.is_monofasico
          /\ \E j \in (i + 1)..Len(cache_ia) :
                cache_ia[j].chave = NomeNormalizado(last.nome_produto)

\* C33: after a store whose file write succeeded, whatever stores, increments
\* and reloads came before and whether or not the loaded file had a learned
\* section, the memory cache, the learned section of the data and the
\* learned section of the file hold the same keys with the same entries.
C33_ThreeCopiesAgree ==
    (last.op = "salvar" /\ last.gravou) =>
        /\ data.aprendizado # None /\ ~SemProdutos(data)
        /\ json_file.kind = "document"
        /\ json_file.doc.aprendizado # None /\ ~SemProdutos(json_file.doc)
        /\ Chaves(cache_ia) = Chaves(data.aprendizado.produtos)
        /\ Chaves(cache_ia) = Chaves(json_file.doc.aprendizado.produtos)
        /\ \A k \in Chaves(cache_ia) :
              /\ GetKey(cache_ia, k) = GetKey(data.aprendizado.produtos, k)
              /\ GetKey(cache_ia, k) = GetKey(json_file.doc.aprendizado.produtos, k)

\* Two entries written by stores into a section the stores created, the
\* last store having written the file
C33_Witness ==
    /\ last.op = "salvar" /\ last.gravou
    /\ Len(cache_ia) = 2
    /\ ~HasKey(cache_ia, "CASAL GARCIA")
    /\ cache_ia = data.aprendizado.produtos
    /\ json_file = DocumentFile(data)

(***************************************************************************)
(* Claims about a verdict whose write failed (Spec).                       *)
(***************************************************************************)
\* The model was invoked for this description in this run and the file
\* holds no entry for it: the write of its store failed
StoredWriteFailed(nome_produto) ==
    /\ \E i \in 1..Len(ia_calls) :
          NomeNormalizado(ia_calls[i]) = NomeNormalizado(nome_produto)
    /\ EntryOnDisk(nome_produto) = None

\* C34: a verdict whose file write failed stays in the memory cache of the
\* run: the lookup of its description hits, and an item with that
\* description is classified without another model call.
C34_FailedWriteStillCached ==
    [][(AnalyzeStep /\ StoredWriteFailed(last'.item.produto)) =>
          /\ BuscarCacheIa(cache_ia, last'.item.produto) # None
          /\ HasKey(cache_ia, NomeNormalizado(last'.item.produto))
          /\ ~last'.ia_chamada
          /\ ia_calls' = ia_calls]_vars

\* An item answered by the cache tier with a verdict the model gave in this
\* run and that no write brought to the file
C34_Witness ==
    /\ last.op = "analyze_item" /\ last.verificado /\ ~last.ia_chamada
    /\ last.resultado_db.fonte = "cache_ia"
    /\ StoredWriteFailed(last.item.produto)

\* The step is one incrementar_economia call
IncrementarStep == n_ops' = n_ops + 1 /\ last'.op = "incrementar"

\* C35: a store leaves the saved-call counter of a learned section that
\* exists unchanged, in the data and in the file it writes; an increment of
\* the counter leaves the memory cache and every entry of the data
\* unchanged, and the file it writes holds exactly these entries.
C35_StoreAndCounterApart ==
    [][/\ (SalvarStep /\ data.aprendizado # None) =>
            /\ data'.aprendizado # None
            /\ data'.aprendizado.total_economizado = data.aprendizado.total_economizado
            /\ last'.gravou =>
                  json_file'.doc.aprendizado.total_economizado
                      = data.aprendizado.total_economizado
       /\ IncrementarStep =>
            /\ cache_ia' = cache_ia
            /\ ProcessCache(data') = ProcessCache(data)
            /\ SemProdutos(data') = SemProdutos(data)
            /\ (json_file' # json_file /\ json_file'.kind = "document") =>
                  ProcessCache(json_file'.doc) = ProcessCache(data)
    ]_vars

\* A store into a section whose counter an earlier increment had raised,
\* next to an entry that was there before
C35_Witness ==
    /\ last.op = "salvar" /\ last.gravou
    /\ data.aprendizado.total_economizado = 1
    /\ Len(cache_ia) = 2
    /\ json_file = DocumentFile(data)

\* The cache without the entry of the empty key
SemChaveVazia(cache) == SelectSeq(cache, LAMBDA e : e.chave # "")

\* C36 as stated: the lookup of a description that is empty after trimming
\* returns None unless an entry is stored under the empty key, and the
\* lookup of a description that is not empty returns what it returns from
\* the cache without the entry of the empty key.
C36_EmptyKeyApart ==
    last.op = "buscar" =>
        /\ (NomeNormalizado(last.nome_produto) = "" /\ ~HasKey(cache_ia, ""))
              => last.dados = None
        /\ NomeNormalizado(last.nome_produto) # ""
              => last.dados = BuscarCacheIa(SemChaveVazia(cache_ia), last.nome_produto)

(***************************************************************************)
(* The web app (app.py): load_database is a st.cache_resource, so every    *)
(* session's script run works on the one NCMDatabase object; each run      *)
(* calls analyze_item for its items, in its own thread.  A run is          *)
(* interleaved with the others where analyze_item blocks: at the call of   *)
(* the external model.  The steps between are taken as atomic, which       *)
(* leaves out interleavings the threads have and adds none.                *)
(*   sessions[s] = [pc, item, resultado_ia, erros]                         *)
(***************************************************************************)
MaxSessions == 2

Sessions == 1..MaxSessions

WebItems ==
    {[ncm |-> "99999999", produto |-> "ARROZ", imposto_total |-> 899],
     [ncm |-> "22042100", produto |-> " arroz ", imposto_total |-> 899],
     [ncm |-> "22030000", produto |-> "HEINEKEN 355ML", imposto_total |-> 899],
     [ncm |-> "99999999", produto |-> "ARROZ", imposto_total |-> 0]}

SessionIdle(erros) == [pc |-> "idle", item |-> None, resultado_ia |-> <<>>, erros |-> erros]

\* origem_analise of a finding of verificar_item
OrigemWeb(fonte) ==
    CASE fonte = "banco_dados" -> "Banco de Dados"
      [] fonte = "cache_ia" -> "Cache IA"
      [] OTHER -> "Keywords"

InitWeb ==
    /\ json_file \in InitialFiles
    /\ \E l \in {Loaded(json_file)} :
         /\ data = l.data
         /\ ncm_lista = l.ncm_lista
         /\ keywords = l.keywords
         /\ cache_ia = l.cache_ia
    /\ instancia2 = None
    /\ sessions = [s \in Sessions |-> SessionIdle(<<>>)]
    /\ ia_auditor \in BOOLEAN
    /\ ia_calls = <<>>
    /\ erros_encontrados = <<>>
    /\ n_ops = 0
    /\ last = NoOp

\* analyze_item up to the model call: the tax guard, verificar_item (with
\* its incrementar_economia on a cache hit), the findings of the registry,
\* keyword and cache tiers, initialize_ai_agent
WebVerificar ==
    /\ n_ops < MaxItems
    /\ \E s \in Sessions, item \in WebItems :
         /\ sessions[s].pc = "idle"
         /\ \E r \in {VerificarItem(ncm_lista, keywords, cache_ia, item.ncm, item.produto)} :
              /\ \E outcome \in (IF ~SemImposto(item) /\ r.fonte = "cache_ia"
                                 THEN WriteOutcomes ELSE {"ok"}) :
                   \E db \in {IF ~SemImposto(item) /\ r.fonte = "cache_ia"
                              THEN IncrementarEconomia(Db, outcome) ELSE Db} :
                      /\ data' = db.data
                      /\ json_file' = db.file
              /\ sessions' = [sessions EXCEPT ![s] =
                    IF SemImposto(item) THEN @
                    ELSE IF r.is_monofasico
                    THEN SessionIdle(Append(@.erros,
                            Erro(item, r.ncm_correto, OrigemWeb(r.fonte), r.confianca)))
                    ELSE IF r.fonte # "cache_ia" /\ ia_auditor
                    THEN [@ EXCEPT !.pc = "model", !.item = item]
                    ELSE @]
              /\ last' = [op |-> "web_verificar", session |-> s, item |-> item,
                          verificado |-> ~SemImposto(item), resultado_db |-> r]
    /\ n_ops' = n_ops + 1
    /\ UNCHANGED <<ncm_lista, keywords, cache_ia, instancia2, ia_auditor, ia_calls,
                   erros_encontrados>>

\* ia_auditor.analyze_item: the blocking call of the external model
WebModel ==
    /\ \E s \in Sessions, response \in Responses :
         /\ sessions[s].pc = "model"
         /\ sessions' = [sessions EXCEPT ![s] =
                [@ EXCEPT !.pc = "salvar",
                          !.resultado_ia = AuditorAnalyzeItem(response,
                                                              sessions[s].item.produto,
                                                              sessions[s].item.ncm)]]
         /\ ia_calls' = Append(ia_calls, sessions[s].item.produto)
         /\ last' = [op |-> "web_model", session |-> s, item |-> sessions[s].item]
    /\ UNCHANGED <<json_file, data, ncm_lista, keywords, cache_ia, instancia2, ia_auditor,
                   erros_encontrados, n_ops>>

\* analyze_item after the model call: salvar_aprendizado_ia and the finding
WebSalvar ==
    /\ \E s \in Sessions, outcome \in WriteOutcomes :
         /\ sessions[s].pc = "salvar"
         /\ \E item \in {sessions[s].item}, resultado_ia \in {sessions[s].resultado_ia} :
              /\ \E db \in {SalvarAprendizadoIa(Db, item.produto,
                                DadosAprendizado(<<resultado_ia[1] = TRUE, resultado_ia[2],
                                                   resultado_ia[3]>>, n_ops), outcome)} :
                   /\ cache_ia' = db.cache
                   /\ data' = db.data
                   /\ json_file' = db.file
              /\ sessions' = [sessions EXCEPT ![s] =
                    SessionIdle(IF resultado_ia[1] = TRUE
                                THEN Append(@.erros,
                                            Erro(item, resultado_ia[2], "Agente IA", "media"))
                                ELSE @.erros)]
              /\ last' = [op |-> "web_salvar", session |-> s, item |-> item]
    /\ UNCHANGED <<ncm_lista, keywords, instancia2, ia_auditor, ia_calls,
                   erros_encontrados, n_ops>>

NextWeb == WebVerificar \/ WebModel \/ WebSalvar

SpecWeb == InitWeb /\ [][NextWeb]_vars

\* How often the external model was invoked for a description in this process
Invocacoes(nome_produto) ==
    Cardinality({i \in 1..Len(ia_calls) :
                    NomeNormalizado(ia_calls[i]) = NomeNormalizado(nome_produto)})

\* C37 as stated: with the classifications of the sessions interleaved on
\* the one shared database, the external model is invoked at most once for
\* a description.
C37_SharedInstanceModelOnce ==
    \A item \in WebItems : Invocacoes(item.produto) <= 1

(***************************************************************************)
(* Claims about categories without a mapped code (SpecMatch).              *)
(***************************************************************************)
\* The categories of the table that are scanned and have no mapped code
SemCodigo(kws) ==
    {c \in 1..Len(kws) : ~StartsWith(kws[c].categoria, "_") /\ CategoriaNcm(kws[c].categoria) = ""}

\* The table without these categories
ComCodigo(kws) == SelectSeq(kws, LAMBDA e : StartsWith(e.categoria, "_") \/ CategoriaNcm(e.categoria) # "")

\* C38: a fragment of a category without mapped code that occurs in the
\* description produces no match: the matcher returns what it returns from
\* the table without these categories, a match it returns carries a mapped
\* code, and it returns none when no fragment of a mapped category occurs.
C38_UnmappedCategoryPassedOver ==
    Verificado =>
        \A id \in {IdentificarPorNome(keywords, last.nome_produto)} :
            /\ id = IdentificarPorNome(ComCodigo(keywords), last.nome_produto)
            /\ id # None => (id.ncm_sugerido # "" /\ CategoriaNcm(id.categoria) = id.ncm_sugerido)
            /\ (\A pos \in Occurring(keywords, last.nome_produto) : pos[1] \in SemCodigo(keywords))
                  => id = None

\* A description in which only a fragment of a category without mapped
\* code occurs: the matcher returned none and the keywords did not answer
C38_Witness ==
    /\ Verificado
    /\ \E pos \in Occurring(keywords, last.nome_produto) : pos[1] \in SemCodigo(keywords)
    /\ \A pos \in Occurring(keywords, last.nome_produto) : pos[1] \in SemCodigo(keywords)
    /\ IdentificarPorNome(keywords, last.nome_produto) = None
    /\ "keywords" \in {last.resultado.tiers[i] : i \in 1..Len(last.resultado.tiers)}
    /\ last.resultado.fonte # "identificacao_nome"

====
